---------------------------- MODULE Spec2Model ----------------------------
(***************************************************************************)
(* Model of the Gemini CLI MCP adapter: the tmux server src/src/server.ts, *)
(* the earlier revision src/src/server-v141-backup.ts where the two        *)
(* differ, and the one-shot server src/unnamed/part_002.                   *)
(*                                                                         *)
(* Text is modelled as a sequence of tokens.  A token stands for one       *)
(* character or for one literal the code searches for; the literals the    *)
(* code tests are the tokens below, everything else is an ordinary         *)
(* character.  "\n" is the line terminator, " " the blank.                 *)
(***************************************************************************)
EXTENDS Integers, Sequences, FiniteSets, TLC

VARIABLES
    \* one call of extractGeminiResponse: its arguments and what it returned
    xOutput, xMessage, xDebug, xBy, xIndex, xLines, xResult

extractVars == <<xOutput, xMessage, xDebug, xBy, xIndex, xLines, xResult>>

VARIABLES
    \* one call of preprocessMessage: the message, the paths that exist, the result
    pMessage, pExisting, pResult

preprocessVars == <<pMessage, pExisting, pResult>>

VARIABLES
    sessions,   \* the tmux sessions that exist: their names and the run that made them
    phase,      \* how far main has come (server.ts 787-794)
    sweep,      \* what cleanupStaleSessions did: "none", "killed" or "failed"
    h,          \* per request slot: the position and the locals of its handler
    cap,        \* per request slot: the locals of its captureResponse call
    debugInfo,  \* the process-wide debug record (server.ts 49-54)
    served,     \* the number of requests dispatched so far
    answered    \* the answer sent last: "none", "closed" for the answer of a
                \* gemini_close that killed the session, "error", or "text"

startVars == <<phase, sweep>>

serverVars == <<sessions, startVars, h, cap, debugInfo, served, answered>>

VARIABLES
    \* one run of the timeout detection of gemini_send: the message, the
    \* timeout argument, the working directory, and the timeout used
    tMessage, tTimeout, tWorkDir, tResult

timeoutVars == <<tMessage, tTimeout, tWorkDir, tResult>>

VARIABLES
    \* one call of captureResponse of the earlier revision: its arguments,
    \* its locals, how it ended and what it returned
    bTimeout, bDebug, bCap, bOutcome, bReturned

captureVars == <<bTimeout, bDebug, bCap, bOutcome, bReturned>>

VARIABLES
    \* one message on its way to the tool: the message, what tmux send-keys
    \* of sendMessage was given, and what the shell pipeline of sendOneShot
    \* wrote to the standard input of gemini
    qMessage, qSent, qPiped

quoteVars == <<qMessage, qSent, qPiped>>

VARIABLES
    \* the one-shot server (src/unnamed/part_002)
    oneShot,        \* the gemini_send handler: position, timeout, clock, race, result
    geminiProcess,  \* the child process of sendOneShot
    output,         \* what the child has written to stdout
    error,          \* what the child has written to stderr
    promise         \* the promise sendOneShot returned

oneShotVars == <<oneShot, geminiProcess, output, error, promise>>

vars == <<extractVars, preprocessVars, timeoutVars, captureVars, quoteVars, oneShotVars, serverVars>>

(***************************************************************************)
(* Tokens                                                                  *)
(***************************************************************************)
NL       == "\n"
SP       == " "
STAR     == "*"          \* the reply glyph U+2726
SPIN     == "~"          \* one of the spinner glyphs of responsePatterns.processing
STATUS   == "Searching"  \* one of the status words of responsePatterns.searchingStatus
PROMPT   == "gemini>"
FENCE    == "<fence>"      \* the three backquotes of responsePatterns.codeBlock
BOX      == "+"          \* one of the border characters of responsePatterns.boxBorder
BANG     == "!"
USINGMCP == "Using 1 MCP"
SHELL    == "shell mode enabled"
PROCEED  == "Do you want to proceed?"
ALLOW    == "Yes, allow once"
YOU      == "You:"
AT       == "@"
SLASH    == "/"

Whitespace == {SP, NL}

(***************************************************************************)
(* String primitives                                                       *)
(***************************************************************************)
\* String.prototype.includes
Includes(hay, needle) ==
    \E i \in 0..(Len(hay) - Len(needle)) :
        SubSeq(hay, i + 1, i + Len(needle)) = needle

\* String.prototype.substring(0, n)
Substring0(s, n) == SubSeq(s, 1, IF n < Len(s) THEN n ELSE Len(s))

HasTok(s, t) == \E i \in 1..Len(s) : s[i] = t

\* String.prototype.split('\n'): always at least one line
RECURSIVE SplitFrom(_, _, _)
SplitFrom(s, i, cur) ==
    IF i > Len(s) THEN <<cur>>
    ELSE IF s[i] = NL THEN <<cur>> \o SplitFrom(s, i + 1, <<>>)
    ELSE SplitFrom(s, i + 1, Append(cur, s[i]))

Split(s) == SplitFrom(s, 1, <<>>)

\* Array.prototype.join('\n'): the empty array joins to the empty string
RECURSIVE Join(_)
Join(ls) ==
    IF Len(ls) = 0 THEN <<>>
    ELSE IF Len(ls) = 1 THEN ls[1]
    ELSE ls[1] \o <<NL>> \o Join(Tail(ls))

\* String.prototype.trim
RECURSIVE TrimLeft(_)
TrimLeft(s) ==
    IF Len(s) > 0 /\ s[1] \in Whitespace THEN TrimLeft(Tail(s)) ELSE s

RECURSIVE TrimRight(_)
TrimRight(s) ==
    IF Len(s) > 0 /\ s[Len(s)] \in Whitespace
    THEN TrimRight(SubSeq(s, 1, Len(s) - 1))
    ELSE s

Trim(s) == TrimRight(TrimLeft(s))

\* all sequences over S of length at most n
SeqsUpTo(S, n) == UNION {[1..k -> S] : k \in 0..n}

Repeat(x, k) == [i \in 1..k |-> x]

\* the value of a result variable before the call has returned
NoResult == <<"<none>">>

\* no call of the extractor is modelled
ExtractIdle ==
    /\ xOutput = <<>> /\ xMessage = <<>> /\ xDebug = FALSE
    /\ xBy = "none" /\ xIndex = -1 /\ xLines = <<>> /\ xResult = NoResult

\* no call of preprocessMessage is modelled
PreprocessIdle == pMessage = <<>> /\ pExisting = {} /\ pResult = NoResult

\* no run of the timeout detection is modelled
TimeoutIdle == tMessage = <<>> /\ tTimeout = <<>> /\ tWorkDir = <<>> /\ tResult = <<>>

\* what a command line has handed to the tool: the text, whether the shell
\* has expanded or run a part of the message, whether the command has failed
Delivered(text) == [text |-> text, interpreted |-> FALSE, failed |-> FALSE]

NotSent == Delivered(NoResult)

\* no message is on its way
QuoteIdle == qMessage = <<>> /\ qSent = NotSent /\ qPiped = NotSent

\* the one-shot server does not run
OneShotIdle ==
    /\ oneShot = [pc |-> "off", timeout |-> 0, now |-> 0, race |-> <<"pending">>,
                  result |-> NoResult]
    /\ geminiProcess = [state |-> "none", code |-> 0]
    /\ output = <<>>
    /\ error = <<>>
    /\ promise = <<"pending">>

\* no call of the earlier captureResponse is modelled
CaptureIdle ==
    /\ bTimeout = 0 /\ bDebug = FALSE /\ bCap = <<>>
    /\ bOutcome = "none" /\ bReturned = NoResult

(***************************************************************************)
(* responsePatterns (server.ts 27-38), each as the test the regex makes    *)
(***************************************************************************)
\* /[spinner glyphs]/ : a spinner glyph anywhere in the text
processing(s) == HasTok(s, SPIN)

\* /(?:Searching|Translating|GoogleSearch|Processing|Thinking)/i
searchingStatus(s) == HasTok(s, STATUS)

\* /^STAR\s+/m : some line starts with the glyph followed by white space
\* (the line terminator is white space too)
geminiStart(s) ==
    \E i \in 1..(Len(s) - 1) :
        /\ s[i] = STAR
        /\ s[i + 1] \in Whitespace
        /\ (i = 1 \/ s[i - 1] = NL)

LineStartsWith(s, t) ==
    \E i \in 1..Len(s) : s[i] = t /\ (i = 1 \/ s[i - 1] = NL)

codeBlock(s) == LineStartsWith(s, FENCE)

boxBorder(s) == LineStartsWith(s, BOX)

promptReturn(s) == LineStartsWith(s, USINGMCP)

geminiPrompt(s) == HasTok(s, PROMPT)

(***************************************************************************)
(* extractGeminiResponse (server.ts 245-356)                               *)
(* Line indices are the code's: 0-based, -1 for "not found"; lines[i] of   *)
(* the code is lines[i + 1] here.                                          *)
(***************************************************************************)
ShortMessageLimit == 20

\* the test of the first loop (server.ts 251-252)
MatchesMessage(line, userMessage) ==
    \/ Includes(line, userMessage)
    \/ /\ Len(userMessage) > ShortMessageLimit
       /\ Includes(line, Substring0(userMessage, ShortMessageLimit))

\* the smallest / greatest index of a set of indices, -1 when it is empty
MinIndex(S) == IF S = {} THEN -1 ELSE CHOOSE i \in S : \A j \in S : i <= j

MaxIndex(S) == IF S = {} THEN -1 ELSE CHOOSE i \in S : \A j \in S : i >= j

\* for (i = 0; i < lines.length; i++) if (...) { messageIndex = i; break; }
FindMessage(lines, userMessage) ==
    MinIndex({i \in 0..(Len(lines) - 1) : MatchesMessage(lines[i + 1], userMessage)})

\* for (i = lines.length - 1; i >= 0; i--) over the response patterns (262-270)
FindResponseStart(lines) ==
    MaxIndex({i \in 0..(Len(lines) - 1) :
                 \/ geminiStart(lines[i + 1])
                 \/ processing(lines[i + 1])
                 \/ searchingStatus(lines[i + 1])})

\* for (i = lines.length - 1; i >= 0; i--) over the prompt token (274-279)
FindLastPrompt(lines) ==
    MaxIndex({i \in 0..(Len(lines) - 1) : geminiPrompt(lines[i + 1])})

\* the reference point (server.ts 247-281)
MessageIndex(lines, userMessage) ==
    LET byMessage == FindMessage(lines, userMessage)
        byPattern == FindResponseStart(lines)
    IN  IF byMessage # -1 THEN byMessage
        ELSE IF byPattern # -1 THEN byPattern
        ELSE FindLastPrompt(lines)

IsStopLineNoPrompt(line) ==
    \/ Includes(line, <<SHELL>>)
    \/ Trim(line) = <<BANG>>
    \/ promptReturn(line)

\* the stop test of the loop (server.ts 329-333)
IsStopLine(line) ==
    \/ geminiPrompt(line)
    \/ Includes(line, <<SHELL>>)
    \/ Trim(line) = <<BANG>>
    \/ promptReturn(line)

\* the skip test of the loop for a line seen before any content (311-316)
IsNoiseLine(line, inCodeBlock, inBox) ==
    \/ processing(line)
    \/ searchingStatus(line)
    \/ geminiStart(line)
    \/ (Trim(line) = <<>> /\ ~inCodeBlock /\ ~inBox)

EmptyLineLimit == 3

EmptyRunEndsNever(emptyLineCount) == FALSE

\* if (!inCodeBlock && !inBox && emptyLineCount > 3) break, without the flags
EmptyRunEnds(emptyLineCount) == emptyLineCount > EmptyLineLimit

\* the loop of server.ts 295-346 from line i on; st holds its locals
RECURSIVE ExtractLoop(_, _, _)
ExtractLoop(lines, i, st) ==
    IF i >= Len(lines) THEN st.responseLines
    ELSE
      LET line      == lines[i + 1]
          code1     == IF codeBlock(line) THEN ~st.inCodeBlock ELSE st.inCodeBlock
          found1    == st.foundResponse \/ codeBlock(line)
          box1      == IF boxBorder(line) THEN ~st.inBox ELSE st.inBox
          found2    == found1 \/ boxBorder(line)
          content   == Trim(line) # <<>> \/ code1 \/ box1
          found3    == found2 \/ content
          empty1    == IF content THEN 0
                       ELSE IF found2 THEN st.emptyLineCount + 1
                       ELSE st.emptyLineCount
          st1       == [foundResponse |-> found3, emptyLineCount |-> empty1,
                        inCodeBlock |-> code1, inBox |-> box1,
                        responseLines |-> st.responseLines]
      IN  IF ~found2 /\ IsNoiseLine(line, code1, box1)
          THEN \* continue
               ExtractLoop(lines, i + 1,
                           [st EXCEPT !.inCodeBlock = code1, !.inBox = box1,
                                      !.foundResponse = found2])
          ELSE IF ~code1 /\ ~box1 /\ IsStopLine(line)
          THEN st.responseLines
          ELSE IF ~code1 /\ ~box1 /\ EmptyRunEnds(empty1)
          THEN st.responseLines
          ELSE IF found3
          THEN ExtractLoop(lines, i + 1,
                           [st1 EXCEPT !.responseLines = Append(st.responseLines, line)])
          ELSE ExtractLoop(lines, i + 1, st1)

ExtractInit ==
    [foundResponse |-> FALSE, emptyLineCount |-> 0, inCodeBlock |-> FALSE,
     inBox |-> FALSE, responseLines |-> <<>>]

ResponseLinesNoBlank(fullOutput, userMessage) ==
    LET lines == Split(fullOutput)
    IN  SelectSeq(ExtractLoop(lines, MessageIndex(lines, userMessage) + 1, ExtractInit),
                  LAMBDA l : Trim(l) # <<>>)

\* the lines collected by the loop, before join and trim
ResponseLines(fullOutput, userMessage) ==
    LET lines == Split(fullOutput)
    IN  ExtractLoop(lines, MessageIndex(lines, userMessage) + 1, ExtractInit)

JoinOnly(responseLines) == Join(responseLines)

\* responseLines.join('\n').trim() (server.ts 348)
JoinAndTrim(responseLines) == Trim(Join(responseLines))

extractGeminiResponse(fullOutput, userMessage, debug) ==
    LET lines == Split(fullOutput)
    IN  IF MessageIndex(lines, userMessage) = -1 /\ debug
        THEN Trim(fullOutput)
        ELSE JoinAndTrim(ResponseLines(fullOutput, userMessage))

(***************************************************************************)
(* extractGeminiResponse of the earlier revision                           *)
(* (server-v141-backup.ts 250-383)                                         *)
(***************************************************************************)
\* the two search loops for the message, exact then partial (264-284)
FindMessage_v141(lines, userMessage) ==
    LET exact   == MinIndex({i \in 0..(Len(lines) - 1) :
                                Includes(lines[i + 1], userMessage)})
        partial == MinIndex({i \in 0..(Len(lines) - 1) :
                                Includes(lines[i + 1],
                                         Substring0(userMessage, ShortMessageLimit))})
    IN  IF exact # -1 THEN exact
        ELSE IF Len(userMessage) > ShortMessageLimit THEN partial
        ELSE -1

\* lines[i].includes(...) over the response indicators (289-290)
IsIndicatorLine_v141(line) ==
    HasTok(line, STAR) \/ HasTok(line, SPIN) \/ HasTok(line, BOX) \/ HasTok(line, FENCE)

\* messageIndex = i - 1 for the last indicator line i (286-296)
MessageIndex_v141(lines, userMessage) ==
    LET byMessage == FindMessage_v141(lines, userMessage)
        indicator == MaxIndex({i \in 0..(Len(lines) - 1) :
                                  IsIndicatorLine_v141(lines[i + 1])})
    IN  IF byMessage # -1 THEN byMessage
        ELSE IF indicator # -1 THEN indicator - 1
        ELSE -1

\* "substantial content" of the fallback (315-316)
IsSubstantial_v141(line) ==
    Trim(line) # <<>> /\ ~HasTok(line, SPIN) /\ ~HasTok(line, USINGMCP)

\* while (startIndex > 0 && lines[startIndex - 1].trim() !== '') startIndex--
RECURSIVE ParagraphStart_v141(_, _)
ParagraphStart_v141(lines, startIndex) ==
    IF startIndex > 0 /\ Trim(lines[startIndex]) # <<>>
    THEN ParagraphStart_v141(lines, startIndex - 1)
    ELSE startIndex

\* the fallback extraction when no reference point exists (298-333)
Fallback_v141(fullOutput) ==
    LET lines    == Split(fullOutput)
        prompt   == FindLastPrompt(lines)
        endIndex == IF prompt # -1 THEN prompt ELSE Len(lines)
        last     == MaxIndex({i \in 0..(endIndex - 1) : IsSubstantial_v141(lines[i + 1])})
        start    == ParagraphStart_v141(lines, last)
    IN  IF last # -1
        THEN Trim(Join(SubSeq(lines, start + 1, endIndex)))
        ELSE Trim(fullOutput)

\* the skip test of the loop (343-349)
IsNoiseLine_v141(line) ==
    \/ HasTok(line, SPIN)
    \/ HasTok(line, STAR)
    \/ HasTok(line, STATUS)
    \/ Trim(line) = <<>>

\* the loop of 339-366 from line i on
RECURSIVE ExtractLoop_v141(_, _, _, _)
ExtractLoop_v141(lines, i, foundContent, responseLines) ==
    IF i >= Len(lines) THEN responseLines
    ELSE
      LET line == lines[i + 1]
      IN  IF ~foundContent /\ IsNoiseLine_v141(line)
          THEN ExtractLoop_v141(lines, i + 1, foundContent, responseLines)
          ELSE IF geminiPrompt(line) \/ Includes(line, <<SHELL>>)
          THEN responseLines
          ELSE ExtractLoop_v141(lines, i + 1,
                                foundContent \/ Trim(line) # <<>>,
                                Append(responseLines, line))

\* while (last line is blank) responseLines.pop() (369-371)
RECURSIVE PopBlankLines(_)
PopBlankLines(ls) ==
    IF Len(ls) > 0 /\ Trim(ls[Len(ls)]) = <<>>
    THEN PopBlankLines(SubSeq(ls, 1, Len(ls) - 1))
    ELSE ls

extractGeminiResponse_v141(fullOutput, userMessage, debug) ==
    LET lines        == Split(fullOutput)
        messageIndex == MessageIndex_v141(lines, userMessage)
    IN  IF messageIndex = -1
        THEN Fallback_v141(fullOutput)
        ELSE Join(PopBlankLines(ExtractLoop_v141(lines, messageIndex + 1, FALSE, <<>>)))

(***************************************************************************)
(* preprocessMessage (server.ts 68-87)                                     *)
(* A path is a token sequence; "/" separates its segments.                 *)
(***************************************************************************)
\* the segments of a path: split at "/", empty segments dropped
RECURSIVE SegmentsFrom(_, _, _)
SegmentsFrom(p, i, cur) ==
    IF i > Len(p) THEN (IF cur = <<>> THEN <<>> ELSE <<cur>>)
    ELSE IF p[i] = SLASH
         THEN (IF cur = <<>> THEN <<>> ELSE <<cur>>) \o SegmentsFrom(p, i + 1, <<>>)
         ELSE SegmentsFrom(p, i + 1, Append(cur, p[i]))

RECURSIVE JoinSegments(_)
JoinSegments(segs) ==
    IF segs = <<>> THEN <<>> ELSE <<SLASH>> \o segs[1] \o JoinSegments(Tail(segs))

\* path.isAbsolute
IsAbsolute(filename) == Len(filename) > 0 /\ filename[1] = SLASH

\* path.resolve(workingDir, filename): an absolute, normalised path
Resolve(workingDir, filename) ==
    LET full == IF IsAbsolute(filename) THEN filename
                ELSE workingDir \o <<SLASH>> \o filename
        segs == SegmentsFrom(full, 1, <<>>)
    IN  IF segs = <<>> THEN <<SLASH>> ELSE JoinSegments(segs)

\* the end (exclusive) of the run of non-white-space characters from i on
RECURSIVE TokenEnd(_, _)
TokenEnd(message, i) ==
    IF i <= Len(message) /\ message[i] \notin Whitespace
    THEN TokenEnd(message, i + 1)
    ELSE i

ReplacementAlways(msgToken, filename, workingDir, existing) ==
    <<AT>> \o Resolve(workingDir, filename)

ReplacementResolvesAbsolute(msgToken, filename, workingDir, existing) ==
    IF Resolve(workingDir, filename) \in existing
    THEN <<AT>> \o Resolve(workingDir, filename)
    ELSE msgToken

\* the replacer callback (server.ts 70-86): match is "@" + filename
Replacement(msgToken, filename, workingDir, existing) ==
    IF IsAbsolute(filename) THEN msgToken
    ELSE IF Resolve(workingDir, filename) \in existing
         THEN <<AT>> \o Resolve(workingDir, filename)
         ELSE msgToken

\* message.replace(/@(\S+)/g, replacer), scanning from position i on
RECURSIVE ReplaceFrom(_, _, _, _)
ReplaceFrom(message, i, workingDir, existing) ==
    IF i > Len(message) THEN <<>>
    ELSE IF message[i] = AT /\ TokenEnd(message, i + 1) > i + 1
    THEN LET e == TokenEnd(message, i + 1)
         IN  Replacement(SubSeq(message, i, e - 1), SubSeq(message, i + 1, e - 1),
                         workingDir, existing)
             \o ReplaceFrom(message, e, workingDir, existing)
    ELSE <<message[i]>> \o ReplaceFrom(message, i + 1, workingDir, existing)

preprocessMessage(message, workingDir, existing) ==
    ReplaceFrom(message, 1, workingDir, existing)

(***************************************************************************)
(* The tmux transport and the tool handlers (server.ts 13-17, 89-243,      *)
(* 358-522, 722-768).                                                      *)
(*                                                                         *)
(* A handler runs from one await to the next in one step.  Every request   *)
(* occupies a slot; its clock cap[r].now counts the milliseconds since its *)
(* captureResponse call read startTime.                                    *)
(***************************************************************************)
DEFAULT_TIMEOUT == 30000
SIMPLE_TIMEOUT  == 10000
PollInterval    == 1000    \* the sleep that ends a poll
StableWindow    == 3000    \* timeSinceLastChange must exceed it
StableCountProcessing == 4 \* requiredStableCount once processing was seen
StableCountQuiet      == 2 \* requiredStableCount otherwise

MaxInFlight   == 2    \* request slots
MaxRequests   == 3    \* requests dispatched in one run
MaxTimeoutSec == 6    \* the longest explicit timeout, in seconds

Slots == 1..MaxInFlight

\* how long a tmux command takes: no time at all, or as long as one poll sleep
Latencies == {0, 1000}

\* how long a failing tmux command takes: less than one poll sleep
FailLatencies == {500}

SEARCH == "search"     \* one of the keywords of the timeout detection

\* the keywords of the timeout detection (server.ts 415-418); the last four
\* stand for the Korean words for search, find, news and latest
SearchKeywords ==
    {SEARCH, "find", "news", "latest", "geomsaek", "chaj", "nyuseu", "choesin"}

\* upper-case spellings: the token and the token toLowerCase makes of it
UpperCase == {<<"SEARCH", SEARCH>>, <<"News", "news">>, <<"A", "a">>}

\* String.prototype.toLowerCase (server.ts 414)
ToLowerCase(s) ==
    [i \in 1..Len(s) |->
        IF \E u \in UpperCase : u[1] = s[i]
        THEN (CHOOSE u \in UpperCase : u[1] = s[i])[2]
        ELSE s[i]]

\* !timeout, for a timeout argument that is absent (<<>>) or a number (<<n>>)
\* (server.ts 413)
NoTimeout(timeout) == timeout = <<>> \/ timeout = <<0>>

NoResponseText == <<"No response captured. Check session status or increase timeout.">>

\* the timeout detection of gemini_send (server.ts 412-424)
EffectiveTimeout(timeout, processedMessage) ==
    LET lowerMessage == ToLowerCase(processedMessage)
    IN  IF ~NoTimeout(timeout) THEN timeout[1]
        ELSE IF \E k \in SearchKeywords : HasTok(lowerMessage, k) THEN DEFAULT_TIMEOUT
        ELSE SIMPLE_TIMEOUT

\* the locals of captureResponse at its start (server.ts 129-134); outcome,
\* lastCaptured, everIndicator and everReplyStart record what the call has
\* captured and how it ended, for the properties; identicalRun counts the
\* latest captures in a row that were equal to the capture before them
CaptureInit ==
    [now |-> 0, lastOutput |-> <<>>, stableCount |-> 0, hasSeenProcessing |-> FALSE,
     lastChangeTime |-> 0, hasSeenGeminiResponse |-> FALSE,
     outcome |-> "none", lastCaptured |-> <<>>,
     everIndicator |-> FALSE, everReplyStart |-> FALSE, identicalRun |-> 0]

DebugInfoInit == [rawOutput |-> <<>>, tmuxCommands |-> 0, timings |-> <<>>]

NoDebugReport == [timings |-> <<>>, commands |-> 0, rawLength |-> 0]

\* the result of a handler that has not returned
NoPayload == [kind |-> "none", text |-> <<>>, debug |-> NoDebugReport]

\* handled counts the calls of handlePermissionRequest, captures those of
\* captureResponse; keys lists what the send-keys commands of the request
\* have typed into the session, creates counts its new-session commands;
\* after is the value of answered when the request arrived, failed tells
\* whether a tmux command of the request failed in a catch block that returns
\* ("command") or in one that goes on ("masked"), given is the
\* auto_permission argument as the client gave it, first what the first
\* captureResponse call returned
HandlerIdle ==
    [pc |-> "idle", tool |-> "none", id |-> 0, message |-> <<>>, timeout |-> 0,
     auto_permission |-> "once", debug |-> FALSE, processedMessage |-> <<>>,
     captures |-> 0, handled |-> 0, response |-> <<>>, result |-> NoPayload,
     full_output |-> FALSE, keys |-> <<>>,
     after |-> "none", failed |-> {}, sessionExists |-> FALSE, creates |-> 0,
     given |-> "once", first |-> <<>>]

\* the session name every tmux command is given (server.ts 13)
SESSION_NAME == "gemini-ai"

TargetPerRequest(id) == <<SESSION_NAME, id>>

\* the name the commands of request id address; the startup sweep is id 0
\* (server.ts 92, 101, 114-115, 137, 232-240, 751)
TargetSession(id) == SESSION_NAME

\* tmux has-session -t name (server.ts 90-97)
HasSession(name) == \E s \in sessions : s.name = name

\* whether the session SESSION_NAME exists
session == HasSession(TargetSession(0))

\* a session left behind by an earlier run of the server
StaleSession == [name |-> TargetSession(0), run |-> "previous"]

\* the server has started and no request has arrived
ServerIdle ==
    /\ sessions = {}
    /\ phase = "initialized"
    /\ sweep = "none"
    /\ h = [r \in Slots |-> HandlerIdle]
    /\ cap = [r \in Slots |-> CaptureInit]
    /\ debugInfo = DebugInfoInit
    /\ served = 0
    /\ answered = "none"

\* a processing indicator in a snapshot (server.ts 147-148, 196-197)
HasIndicator(stdout) == processing(stdout) \/ searchingStatus(stdout)

FirstKeyEnter(auto_permission) == "Enter"

\* the key handlePermissionRequest sends first (server.ts 227-243)
FirstKey(auto_permission) ==
    CASE auto_permission = "once" -> "Enter"
      [] auto_permission = "always" -> "Down"
      [] auto_permission = "no" -> "Escape"

\* the permission UI check (server.ts 210-212)
IsPermissionUI(stdout) == HasTok(stdout, PROCEED) \/ HasTok(stdout, ALLOW)

\* trackCommand, when debug is on (server.ts 63-65, 119-122, 139)
TrackCommands(d, debug, n) ==
    IF debug THEN [d EXCEPT !.tmuxCommands = @ + n] ELSE d

\* trackTiming (server.ts 56-61); the duration is not modelled
TrackTiming(d, step) == [d EXCEPT !.timings = Append(@, step)]

\* requiredStableCount (server.ts 191)
RequiredStableCount(c) ==
    IF c.hasSeenProcessing THEN StableCountProcessing ELSE StableCountQuiet

\* "Verify we have actual content" (server.ts 200)
HasActualContent(c) == c.hasSeenGeminiResponse \/ c.hasSeenProcessing

ChangedLength(stdout, lastOutput) == Len(stdout) # Len(lastOutput)

\* the comparison that decides between the two branches (server.ts 161)
Changed(stdout, lastOutput) == stdout # lastOutput

\* the locals after a capture that returned stdout at time t (server.ts 146-166, 188)
AfterCapture(c, stdout, t) ==
    LET changed == Changed(stdout, c.lastOutput)
    IN  [c EXCEPT
            !.identicalRun = IF stdout = c.lastCaptured THEN @ + 1 ELSE 0,
            !.hasSeenProcessing = @ \/ HasIndicator(stdout),
            !.hasSeenGeminiResponse = @ \/ geminiStart(stdout),
            !.stableCount = IF changed THEN 0 ELSE @ + 1,
            !.lastOutput = IF changed THEN stdout ELSE @,
            !.lastChangeTime = IF changed \/ HasIndicator(stdout) THEN t ELSE @,
            !.lastCaptured = stdout,
            !.everIndicator = @ \/ HasTok(stdout, SPIN) \/ HasTok(stdout, STATUS),
            !.everReplyStart = @ \/ geminiStart(stdout)]

\* the completion test of the stable branch (server.ts 186-206); c is AfterCapture
IsComplete(c, stdout, t, changed) ==
    /\ ~changed
    /\ c.stableCount >= RequiredStableCount(c)
    /\ t - c.lastChangeTime > StableWindow
    /\ ~HasIndicator(stdout)
    /\ HasActualContent(c)

TimeoutValueEmpty(c) == <<>>

\* return lastOutput (server.ts 224)
TimeoutValue(c) == c.lastOutput

SendResultRaw(geminiResponse, debug, d) ==
    [kind |-> "text", text |-> geminiResponse, debug |-> NoDebugReport]

\* the text payload of a gemini_send result (server.ts 478-500)
SendResult(geminiResponse, debug, d) ==
    [kind  |-> "text",
     text  |-> IF geminiResponse # <<>> THEN geminiResponse ELSE NoResponseText,
     debug |-> IF debug
               THEN [timings |-> d.timings, commands |-> d.tmuxCommands,
                     rawLength |-> Len(d.rawOutput)]
               ELSE NoDebugReport]

\* the payload of the catch block (server.ts 502-520)
ErrorResult(command) ==
    [kind |-> "error",
     text |-> <<"Error:", "Command failed:", command,
                "Suggestion: Make sure tmux is installed (sudo apt install tmux)">>,
     debug |-> NoDebugReport]

\* the payloads of gemini_close (server.ts 742-765)
CloseResult(text) == [kind |-> "text", text |-> <<text>>, debug |-> NoDebugReport]

CloseError(command) ==
    [kind |-> "error", text |-> <<"Error closing session:", "Command failed:", command>>,
     debug |-> NoDebugReport]

\* the payloads of gemini_session_status (server.ts 591-644)
StatusResult(text) == [kind |-> "text", text |-> <<text>>, debug |-> NoDebugReport]

StatusError(command) ==
    [kind |-> "error", text |-> <<"Error checking session:", "Command failed:", command>>,
     debug |-> NoDebugReport]

\* the payloads of gemini_clear (server.ts 670-718)
ClearResult(text) == [kind |-> "text", text |-> <<text>>, debug |-> NoDebugReport]

ClearError(command) ==
    [kind |-> "error",
     text |-> <<"Error clearing conversation:", "Command failed:", command>>,
     debug |-> NoDebugReport]

(***************************************************************************)
(* Inputs of the extractor: transcripts and messages                       *)
(***************************************************************************)
MaxChunks   == 3    \* lines of a free-form transcript
MaxNoise    == 3    \* spinner/status lines between the echo and the reply
MaxBlankRun == 5    \* consecutive blank lines inside a reply

MsgA     == <<"a">>
MsgEmpty == <<>>

Messages == {MsgA, MsgEmpty}

EchoLine   == <<YOU, SP>> \o MsgA
SpinLine   == <<SPIN>>
StatusLine == <<STATUS, SP, "r">>
StarLine   == <<STAR, SP, "r">>
TextLine   == <<"r">>
OtherLine  == <<"s">>
IndentLine == <<SP, "r">>
PromptLine == <<PROMPT, SP>>
BlankLine  == <<>>
FenceLine  == <<FENCE>>
BoxLine    == <<BOX>>
BangLine   == <<BANG>>
UsingLine  == <<USINGMCP>>
ShellLine  == <<SHELL>>

LineVocab ==
    {EchoLine, SpinLine, StatusLine, StarLine, TextLine, IndentLine, PromptLine,
     BlankLine, FenceLine, BoxLine, BangLine, UsingLine, ShellLine}

NoiseVocab == {SpinLine, StatusLine}

\* free-form transcripts
GeneralLines == SeqsUpTo(LineVocab, MaxChunks) \ {<<>>}

\* echo, spinner/status lines, a reply line with the glyph, the prompt
ScenarioCLines ==
    {<<EchoLine>> \o noise \o <<StarLine, PromptLine>> :
        noise \in SeqsUpTo(NoiseVocab, MaxNoise) \ {<<>>}}

\* a reply holding a run of blank lines, outside or inside a fence or a box
BlankRunLines ==
    {pre \o <<first>> \o Repeat(BlankLine, k) \o <<last>> :
        pre \in {<<>>, <<EchoLine>>, <<FenceLine>>, <<BoxLine>>},
        first \in {TextLine}, k \in 0..MaxBlankRun,
        last \in {TextLine, PromptLine}}

\* the message echoed twice, each echo followed by its own reply
RepeatLines ==
    {<<EchoLine, r1, PromptLine, EchoLine, r2, PromptLine>> :
        r1 \in {TextLine, OtherLine}, r2 \in {TextLine, OtherLine}}

\* a reply that shows the prompt inside a fence or a box, followed by the
\* prompt of the tool and a line of a later exchange
PromptInsideLines ==
    {pre \o <<border, PromptLine, border, TextLine, PromptLine, OtherLine>> :
        pre \in {<<>>, <<EchoLine>>}, border \in {FenceLine, BoxLine}}

Transcripts ==
    {Join(ls) : ls \in GeneralLines \cup ScenarioCLines \cup BlankRunLines
                        \cup RepeatLines \cup PromptInsideLines}

(***************************************************************************)
(* One call of the extractor on arbitrary arguments                        *)
(***************************************************************************)
InitExtract ==
    /\ xOutput \in Transcripts
    /\ xMessage \in Messages
    /\ xDebug \in BOOLEAN
    /\ xBy = "none"
    /\ xIndex = -1
    /\ xLines = <<>>
    /\ xResult = NoResult
    /\ PreprocessIdle
    /\ TimeoutIdle
    /\ CaptureIdle
    /\ QuoteIdle
    /\ OneShotIdle
    /\ ServerIdle

\* xIndex and xLines record the locals messageIndex and responseLines
CallExtract ==
    /\ xBy = "none"
    /\ xBy' = "server"
    /\ xIndex' = MessageIndex(Split(xOutput), xMessage)
    /\ xLines' = ResponseLines(xOutput, xMessage)
    /\ xResult' = extractGeminiResponse(xOutput, xMessage, xDebug)
    /\ UNCHANGED <<xOutput, xMessage, xDebug, preprocessVars, timeoutVars, captureVars, quoteVars, oneShotVars, serverVars>>

CallExtract_v141 ==
    /\ xBy = "none"
    /\ xBy' = "v141"
    /\ xIndex' = MessageIndex_v141(Split(xOutput), xMessage)
    /\ xLines' = IF xIndex' = -1 THEN <<>>
                 ELSE ExtractLoop_v141(Split(xOutput), xIndex' + 1, FALSE, <<>>)
    /\ xResult' = extractGeminiResponse_v141(xOutput, xMessage, xDebug)
    /\ UNCHANGED <<xOutput, xMessage, xDebug, preprocessVars, timeoutVars, captureVars, quoteVars, oneShotVars, serverVars>>

NextExtract == CallExtract \/ CallExtract_v141

SpecExtract == InitExtract /\ [][NextExtract]_vars

(***************************************************************************)
(* One call of preprocessMessage on arbitrary arguments                    *)
(***************************************************************************)
MaxMessageLen == 5

WorkDir == <<SLASH, "w">>

Root == <<SLASH>>

\* the working directory holds the file f, or holds nothing
FileSystems == {{Root, WorkDir, WorkDir \o <<SLASH, "f">>}, {Root, WorkDir}}

MessageAlphabet == {AT, SP, SLASH, "f", "x", "w"}

InitPreprocess ==
    /\ pMessage \in SeqsUpTo(MessageAlphabet, MaxMessageLen)
    /\ pExisting \in FileSystems
    /\ pResult = NoResult
    /\ ExtractIdle
    /\ TimeoutIdle
    /\ CaptureIdle
    /\ QuoteIdle
    /\ OneShotIdle
    /\ ServerIdle

CallPreprocess ==
    /\ pResult = NoResult
    /\ pResult' = preprocessMessage(pMessage, WorkDir, pExisting)
    /\ UNCHANGED <<pMessage, pExisting, extractVars, timeoutVars, captureVars, quoteVars, oneShotVars, serverVars>>

NextPreprocess == CallPreprocess

SpecPreprocess == InitPreprocess /\ [][NextPreprocess]_vars

(***************************************************************************)
(* One run of the timeout detection on arbitrary arguments                 *)
(***************************************************************************)
MaxSniffLen == 2

\* a working directory whose path holds a keyword
KeywordDir == <<SLASH, SEARCH>>

SniffAlphabet == SearchKeywords \cup {"SEARCH", "News", "A", "a", "f", AT, SP}

\* absent, zero, positive and negative timeouts
TimeoutArgs == {<<>>, <<0>>, <<1000>>, <<-1>>}

\* the working directory holds the file f
FilesIn(workDir) == {Root, workDir, workDir \o <<SLASH, "f">>}

InitTimeout ==
    /\ tMessage \in SeqsUpTo(SniffAlphabet, MaxSniffLen)
    /\ tTimeout \in TimeoutArgs
    /\ tWorkDir \in {WorkDir, KeywordDir}
    /\ tResult = <<>>
    /\ ExtractIdle
    /\ PreprocessIdle
    /\ CaptureIdle
    /\ QuoteIdle
    /\ OneShotIdle
    /\ ServerIdle

\* the handler from its entry to the end of the detection (server.ts 404-424)
CallTimeout ==
    /\ tResult = <<>>
    /\ LET processedMessage == preprocessMessage(tMessage, tWorkDir, FilesIn(tWorkDir))
       IN  tResult' = <<EffectiveTimeout(tTimeout, processedMessage)>>
    /\ UNCHANGED <<tMessage, tTimeout, tWorkDir, extractVars, preprocessVars, captureVars, quoteVars, oneShotVars, serverVars>>

NextTimeout == CallTimeout

SpecTimeout == InitTimeout /\ [][NextTimeout]_vars

(***************************************************************************)
(* The requests and the pane contents the server is run on                 *)
(***************************************************************************)
\* what the working directory of the server holds
ServerFiles == {Root, WorkDir, WorkDir \o <<SLASH, "f">>}

MsgSearch == <<SEARCH>>
MsgFile   == <<AT, "f">>

SendMessages == {MsgA, MsgSearch, MsgFile}

Permissions == {"once", "always", "no"}

\* the request has no auto_permission argument
NoPolicy == "absent"

\* auto_permission = "once" in the parameter list of the handler (server.ts 390)
DefaultPolicy == "once"

\* the arguments of a gemini_send request; timeouts are in milliseconds, <<n>>
\* is the timeout n and <<>> an absent timeout
SendInput(message, timeout, auto_permission, debug) ==
    [message |-> message, timeout |-> timeout,
     auto_permission |-> auto_permission, debug |-> debug]

\* requests that time out after one poll
QuickInputs ==
    {SendInput(m, <<1000>>, NoPolicy, d) : m \in SendMessages, d \in BOOLEAN}

\* requests that leave the capture time to complete, and requests that rely
\* on the timeout detection
LongInputs ==
    {SendInput(MsgA, <<1000 * MaxTimeoutSec>>, p, d) : p \in Permissions, d \in BOOLEAN}
        \cup {SendInput(m, <<>>, "once", FALSE) : m \in {MsgA, MsgSearch}}

\* the requests after the second
LaterInputs == {SendInput(MsgA, <<1000>>, NoPolicy, FALSE)}

\* the first request of a run, and the requests that follow it
RequestInputs(n) ==
    IF n = 0 THEN QuickInputs \cup LongInputs
    ELSE IF n = 1 THEN QuickInputs
    ELSE LaterInputs

\* the requests of a client that does not wait for the answers
PipelinedInputs ==
    {SendInput(MsgA, <<1000>>, p, d) : p \in {"once", "always"}, d \in BOOLEAN}

PermLine == <<PROCEED>>

\* what tmux capture-pane can print
PaneEcho  == Join(<<EchoLine>>)
PaneSpin  == Join(<<EchoLine, SpinLine>>)
PaneStar  == Join(<<EchoLine, StarLine, PromptLine>>)
PaneText  == Join(<<EchoLine, TextLine>>)
PanePerm  == Join(<<EchoLine, PermLine>>)
PaneAllow == Join(<<EchoLine, <<ALLOW>>>>)

Panes == {PaneEcho, PaneSpin, PaneStar, PaneText, PanePerm, PaneAllow}

(***************************************************************************)
(* The handlers, one action per continuation                               *)
(***************************************************************************)
Idle(r) == h[r].pc = "idle"

\* whether the session the handler of slot r addresses exists
Exists(r) == HasSession(TargetSession(h[r].id))

AllIdle == \A r \in Slots : Idle(r)

ServingAtOnce == TRUE

\* the transport is connected and the client has been answered its
\* initialize request, the first request of a session (server.ts 791-792)
Serving == phase = "initialized"

\* requests take the least free slot
FreeSlot(r) == Idle(r) /\ \A q \in Slots : Idle(q) => r <= q

\* a gemini_send request arrives; the handler runs to its first await
\* (server.ts 390-427)
SendRequest(r, in) ==
    /\ Serving
    /\ served < MaxRequests
    /\ FreeSlot(r)
    /\ served' = served + 1
    /\ LET processedMessage == preprocessMessage(in.message, WorkDir, ServerFiles)
       IN  h' = [h EXCEPT ![r] =
                    [HandlerIdle EXCEPT
                        !.pc = "checkSession", !.tool = "gemini_send",
                        !.id = served + 1, !.message = in.message,
                        !.timeout = EffectiveTimeout(in.timeout, processedMessage),
                        !.auto_permission = IF in.auto_permission = NoPolicy
                                            THEN DefaultPolicy
                                            ELSE in.auto_permission,
                        !.given = in.auto_permission, !.debug = in.debug,
                        !.processedMessage = processedMessage,
                        !.after = answered]]
    /\ debugInfo' = IF in.debug THEN DebugInfoInit ELSE debugInfo
    /\ UNCHANGED <<sessions, startVars, cap, answered, extractVars, preprocessVars, timeoutVars, captureVars, quoteVars, oneShotVars>>

\* a gemini_close request arrives (server.ts 738-740)
CloseRequest(r) ==
    /\ Serving
    /\ served < MaxRequests
    /\ FreeSlot(r)
    /\ served' = served + 1
    /\ h' = [h EXCEPT ![r] =
                [HandlerIdle EXCEPT !.pc = "closeCheck", !.tool = "gemini_close",
                                    !.id = served + 1, !.after = answered]]
    /\ UNCHANGED <<sessions, startVars, cap, debugInfo, answered, extractVars, preprocessVars, timeoutVars, captureVars, quoteVars, oneShotVars>>

\* a gemini_session_status request arrives (server.ts 589-591)
StatusRequest(r, full_output) ==
    /\ Serving
    /\ served < MaxRequests
    /\ FreeSlot(r)
    /\ served' = served + 1
    /\ h' = [h EXCEPT ![r] =
                [HandlerIdle EXCEPT !.pc = "statusCheck", !.tool = "gemini_session_status",
                                    !.id = served + 1, !.after = answered,
                                    !.full_output = full_output]]
    /\ UNCHANGED <<sessions, startVars, cap, debugInfo, answered, extractVars, preprocessVars, timeoutVars, captureVars, quoteVars, oneShotVars>>

\* a gemini_clear request arrives (server.ts 665-669)
ClearRequest(r, debug) ==
    /\ Serving
    /\ served < MaxRequests
    /\ FreeSlot(r)
    /\ served' = served + 1
    /\ h' = [h EXCEPT ![r] =
                [HandlerIdle EXCEPT !.pc = "clearCheck", !.tool = "gemini_clear",
                                    !.id = served + 1, !.after = answered,
                                    !.debug = debug]]
    /\ UNCHANGED <<sessions, startVars, cap, debugInfo, answered, extractVars, preprocessVars, timeoutVars, captureVars, quoteVars, oneShotVars>>

ThrowRetry(r, command) ==
    h' = [h EXCEPT ![r].pc = "checkSession", ![r].failed = @ \cup {"command"}]

ThrowUncaught(r, command) ==
    h' = [h EXCEPT ![r].pc = "crashed", ![r].failed = @ \cup {"command"}]

\* a tmux command of gemini_send failed: the catch block (server.ts 502-520)
Throw(r, command) ==
    h' = [h EXCEPT ![r].pc = "done", ![r].result = ErrorResult(command),
                   ![r].failed = @ \cup {"command"}]

NeedsSessionAlways(sessionExists) == TRUE

\* if (!sessionExists): createSession is called (server.ts 428-431)
NeedsSession(sessionExists) == ~sessionExists

\* checkSession has answered (server.ts 427-445, 90-97, 119-124)
CheckSession(r) ==
    /\ h[r].pc = "checkSession"
    /\ LET sessionExists == Exists(r)
       IN  IF NeedsSession(sessionExists)
           THEN /\ h' = [h EXCEPT ![r].pc = "newSession", ![r].creates = @ + 1,
                                  ![r].sessionExists = sessionExists]
                /\ UNCHANGED debugInfo
           ELSE /\ h' = [h EXCEPT ![r].pc = "sendText",
                                  ![r].sessionExists = sessionExists]
                /\ debugInfo' = TrackCommands(debugInfo, h[r].debug, 2)
    /\ UNCHANGED <<sessions, startVars, cap, served, answered, extractVars, preprocessVars, timeoutVars, captureVars, quoteVars, oneShotVars>>

\* tmux new-session has answered (server.ts 101-107)
NewSession(r) ==
    /\ h[r].pc = "newSession"
    /\ IF Exists(r)
       THEN Throw(r, "tmux new-session") /\ UNCHANGED sessions
       ELSE h' = [h EXCEPT ![r].pc = "createEnter"] /\ sessions' = sessions \cup {[name |-> TargetSession(h[r].id), run |-> "this"]}
    /\ UNCHANGED <<startVars, cap, debugInfo, served, answered, extractVars, preprocessVars, timeoutVars, captureVars, quoteVars, oneShotVars>>

\* the Enter of createSession has answered (server.ts 107-108, 433-445, 119-124)
CreateEnter(r) ==
    /\ h[r].pc = "createEnter"
    /\ IF Exists(r)
       THEN /\ h' = [h EXCEPT ![r].pc = "sendText", ![r].keys = Append(@, "Enter")]
            /\ debugInfo' = TrackCommands(debugInfo, h[r].debug, 2)
       ELSE Throw(r, "tmux send-keys Enter") /\ UNCHANGED debugInfo
    /\ UNCHANGED <<sessions, startVars, cap, served, answered, extractVars, preprocessVars, timeoutVars, captureVars, quoteVars, oneShotVars>>

\* the send-keys of the message has answered (server.ts 124-125)
SendText(r) ==
    /\ h[r].pc = "sendText"
    /\ IF Exists(r)
       THEN h' = [h EXCEPT ![r].pc = "sendEnter", ![r].keys = Append(@, "message")]
       ELSE Throw(r, "tmux send-keys message")
    /\ UNCHANGED <<sessions, startVars, cap, debugInfo, served, answered, extractVars, preprocessVars, timeoutVars, captureVars, quoteVars, oneShotVars>>

\* a key was typed into the session and captureResponse is entered
\* (server.ts 129-136)
StartCapture(r, key) ==
    /\ h' = [h EXCEPT ![r].pc = "poll", ![r].captures = @ + 1,
                      ![r].keys = Append(@, key)]
    /\ cap' = [cap EXCEPT ![r] = CaptureInit]

\* the Enter of sendMessage has answered (server.ts 125, 448-451)
SendEnter(r) ==
    /\ h[r].pc = "sendEnter"
    /\ IF Exists(r)
       THEN StartCapture(r, "Enter")
       ELSE Throw(r, "tmux send-keys Enter") /\ UNCHANGED cap
    /\ UNCHANGED <<sessions, startVars, debugInfo, served, answered, extractVars, preprocessVars, timeoutVars, captureVars, quoteVars, oneShotVars>>

PermissionNeededAgain(captures, response) == HasTok(response, PROCEED)

\* the test made once, on what the first captureResponse call returned
\* (server.ts 451-454)
PermissionNeeded(captures, response) == captures = 1 /\ HasTok(response, PROCEED)

\* the arguments extractGeminiResponse is called with by gemini_send: a
\* snapshot captureResponse can return, the processed message, the debug flag
ExtractArgs ==
    (Panes \cup {<<>>})
        \X {preprocessMessage(m, WorkDir, ServerFiles) : m \in SendMessages}
        \X BOOLEAN

RECURSIVE Tabulated(_)
Tabulated(args) ==
    IF args = {} THEN <<>>
    ELSE LET a == CHOOSE x \in args : TRUE
         IN  (a :> extractGeminiResponse(a[1], a[2], a[3])) @@ Tabulated(args \ {a})

\* extractGeminiResponse on these arguments, computed once (server.ts 245-356, 465)
Extracted == Tabulated(ExtractArgs)

\* captureResponse has returned response to gemini_send (server.ts 451-500);
\* c and d are the locals of the call and the debug record at its return
Return(r, response, c, d) ==
    /\ cap' = [cap EXCEPT ![r] = c]
    /\ IF PermissionNeeded(h[r].captures, response)
       THEN /\ h' = [h EXCEPT ![r].pc = "permission", ![r].response = response,
                              ![r].first = response, ![r].handled = @ + 1]
            /\ debugInfo' = d
       ELSE LET geminiResponse ==
                    Extracted[<<response, h[r].processedMessage, h[r].debug>>]
                d2 == TrackTiming(d, "total_execution")
            IN  /\ h' = [h EXCEPT ![r].pc = "done", ![r].response = response,
                                  ![r].first = IF h[r].captures = 1 THEN response ELSE @,
                                  ![r].result = SendResult(geminiResponse, h[r].debug, d2)]
                /\ debugInfo' = d2

\* one pass of the loop whose capture-pane succeeds (server.ts 136-216)
CapturePoll(r) ==
    /\ h[r].pc = "poll"
    /\ cap[r].now < h[r].timeout
    /\ Exists(r)
    /\ \E stdout \in Panes, lat \in Latencies :
          LET t == cap[r].now + lat
              changed == Changed(stdout, cap[r].lastOutput)
              c == [AfterCapture(cap[r], stdout, t) EXCEPT !.now = t]
              d == IF h[r].debug
                   THEN [TrackCommands(debugInfo, TRUE, 1) EXCEPT !.rawOutput = stdout]
                   ELSE debugInfo
          IN  IF IsComplete(c, stdout, t, changed)
              THEN Return(r, stdout, [c EXCEPT !.outcome = "complete"],
                          TrackTiming(d, "response_capture"))
              ELSE IF IsPermissionUI(stdout)
              THEN Return(r, stdout, [c EXCEPT !.outcome = "permission"], d)
              ELSE /\ cap' = [cap EXCEPT ![r] = [c EXCEPT !.now = t + PollInterval]]
                   /\ debugInfo' = d
                   /\ UNCHANGED h
    /\ UNCHANGED <<sessions, startVars, served, answered, extractVars, preprocessVars, timeoutVars, captureVars, quoteVars, oneShotVars>>

\* one pass of the loop whose capture-pane fails (server.ts 136-141, 217-219)
CaptureFail(r) ==
    /\ h[r].pc = "poll"
    /\ cap[r].now < h[r].timeout
    /\ ~Exists(r)
    /\ \E lat \in FailLatencies : cap' = [cap EXCEPT ![r].now = @ + lat]
    /\ h' = [h EXCEPT ![r].failed = @ \cup {"masked"}]
    /\ debugInfo' = TrackCommands(debugInfo, h[r].debug, 1)
    /\ UNCHANGED <<sessions, startVars, served, answered, extractVars, preprocessVars, timeoutVars, captureVars, quoteVars, oneShotVars>>

\* the loop condition fails (server.ts 136, 222-224)
CaptureTimeout(r) ==
    /\ h[r].pc = "poll"
    /\ cap[r].now >= h[r].timeout
    /\ Return(r, TimeoutValue(cap[r]), [cap[r] EXCEPT !.outcome = "timeout"],
              TrackTiming(debugInfo, "response_capture_timeout"))
    /\ UNCHANGED <<sessions, startVars, served, answered, extractVars, preprocessVars, timeoutVars, captureVars, quoteVars, oneShotVars>>

\* the first key of handlePermissionRequest has answered (server.ts 227-243, 456-460)
Permission(r) ==
    /\ h[r].pc = "permission"
    /\ IF ~Exists(r)
       THEN Throw(r, "tmux send-keys") /\ UNCHANGED cap
       ELSE IF h[r].auto_permission = "always"
       THEN /\ h' = [h EXCEPT ![r].pc = "permissionEnter",
                              ![r].keys = Append(@, FirstKey(h[r].auto_permission))]
            /\ UNCHANGED cap
       ELSE StartCapture(r, FirstKey(h[r].auto_permission))
    /\ UNCHANGED <<sessions, startVars, debugInfo, served, answered, extractVars, preprocessVars, timeoutVars, captureVars, quoteVars, oneShotVars>>

\* the Enter that follows Down has answered (server.ts 236, 459-460)
PermissionEnter(r) ==
    /\ h[r].pc = "permissionEnter"
    /\ IF Exists(r)
       THEN StartCapture(r, "Enter")
       ELSE Throw(r, "tmux send-keys Enter") /\ UNCHANGED cap
    /\ UNCHANGED <<sessions, startVars, debugInfo, served, answered, extractVars, preprocessVars, timeoutVars, captureVars, quoteVars, oneShotVars>>

\* checkSession of gemini_close has answered (server.ts 740-751)
CloseCheck(r) ==
    /\ h[r].pc = "closeCheck"
    /\ IF Exists(r)
       THEN h' = [h EXCEPT ![r].pc = "kill"]
       ELSE h' = [h EXCEPT ![r].pc = "done",
                           ![r].result = CloseResult("No active session to close")]
    /\ UNCHANGED <<sessions, startVars, cap, debugInfo, served, answered, extractVars, preprocessVars, timeoutVars, captureVars, quoteVars, oneShotVars>>

\* tmux kill-session has answered (server.ts 751-766)
Kill(r) ==
    /\ h[r].pc = "kill"
    /\ IF Exists(r)
       THEN /\ sessions' = {s \in sessions : s.name # TargetSession(h[r].id)}
            /\ h' = [h EXCEPT ![r].pc = "done",
                              ![r].result = CloseResult("Gemini session closed")]
       ELSE /\ h' = [h EXCEPT ![r].pc = "done", ![r].failed = @ \cup {"command"},
                              ![r].result = CloseError("tmux kill-session")]
            /\ UNCHANGED sessions
    /\ UNCHANGED <<startVars, cap, debugInfo, served, answered, extractVars, preprocessVars, timeoutVars, captureVars, quoteVars, oneShotVars>>

\* checkSession of gemini_session_status has answered (server.ts 591-602)
StatusCheck(r) ==
    /\ h[r].pc = "statusCheck"
    /\ IF Exists(r)
       THEN h' = [h EXCEPT ![r].pc = "statusDetails"]
       ELSE h' = [h EXCEPT ![r].pc = "done",
                           ![r].result = StatusResult("No active Gemini session")]
    /\ UNCHANGED <<sessions, startVars, cap, debugInfo, served, answered, extractVars, preprocessVars, timeoutVars, captureVars, quoteVars, oneShotVars>>

\* getSessionDetails has returned to gemini_session_status; its three
\* commands end in || echo "" and cannot fail (server.ts 525-564, 602-612)
StatusDetails(r) ==
    /\ h[r].pc = "statusDetails"
    /\ h' = [h EXCEPT ![r].pc = "statusOutput",
                      ![r].failed = IF Exists(r) THEN @ ELSE @ \cup {"masked"}]
    /\ UNCHANGED <<sessions, startVars, cap, debugInfo, served, answered, extractVars, preprocessVars, timeoutVars, captureVars, quoteVars, oneShotVars>>

\* the capture-pane of gemini_session_status has answered; piped into tail
\* it has the exit status of tail (server.ts 605-644)
StatusOutput(r) ==
    /\ h[r].pc = "statusOutput"
    /\ IF h[r].full_output /\ ~Exists(r)
       THEN h' = [h EXCEPT ![r].pc = "done", ![r].failed = @ \cup {"command"},
                           ![r].result = StatusError("tmux capture-pane")]
       ELSE h' = [h EXCEPT ![r].pc = "done",
                           ![r].failed = IF Exists(r) THEN @ ELSE @ \cup {"masked"},
                           ![r].result = StatusResult("Session Status: ACTIVE")]
    /\ UNCHANGED <<sessions, startVars, cap, debugInfo, served, answered, extractVars, preprocessVars, timeoutVars, captureVars, quoteVars, oneShotVars>>

\* checkSession of gemini_clear has answered (server.ts 669-686)
ClearCheck(r) ==
    /\ h[r].pc = "clearCheck"
    /\ IF ~Exists(r)
       THEN h' = [h EXCEPT ![r].pc = "done",
                           ![r].result = ClearResult("No active session to clear")]
       ELSE IF h[r].debug
       THEN h' = [h EXCEPT ![r].pc = "clearBefore"]
       ELSE h' = [h EXCEPT ![r].pc = "clearText"]
    /\ UNCHANGED <<sessions, startVars, cap, debugInfo, served, answered, extractVars, preprocessVars, timeoutVars, captureVars, quoteVars, oneShotVars>>

\* getSessionDetails has returned beforeState (server.ts 681-686, 119-124)
ClearBefore(r) ==
    /\ h[r].pc = "clearBefore"
    /\ h' = [h EXCEPT ![r].pc = "clearText",
                      ![r].failed = IF Exists(r) THEN @ ELSE @ \cup {"masked"}]
    /\ debugInfo' = TrackCommands(debugInfo, TRUE, 2)
    /\ UNCHANGED <<sessions, startVars, cap, served, answered, extractVars, preprocessVars, timeoutVars, captureVars, quoteVars, oneShotVars>>

ClearDirectiveQuit == "/quit"

\* the text gemini_clear types into the session (server.ts 686)
ClearDirective == "/clear"

\* the send-keys of /clear has answered (server.ts 686, 124-125)
ClearText(r) ==
    /\ h[r].pc = "clearText"
    /\ IF Exists(r)
       THEN h' = [h EXCEPT ![r].pc = "clearEnter", ![r].keys = Append(@, ClearDirective)]
       ELSE h' = [h EXCEPT ![r].pc = "done", ![r].failed = @ \cup {"command"},
                           ![r].result = ClearError("tmux send-keys /clear")]
    /\ UNCHANGED <<sessions, startVars, cap, debugInfo, served, answered, extractVars, preprocessVars, timeoutVars, captureVars, quoteVars, oneShotVars>>

\* the Enter of sendMessage has answered, and the sleep is over
\* (server.ts 125, 687-693)
ClearEnter(r) ==
    /\ h[r].pc = "clearEnter"
    /\ IF ~Exists(r)
       THEN h' = [h EXCEPT ![r].pc = "done", ![r].failed = @ \cup {"command"},
                           ![r].result = ClearError("tmux send-keys Enter")]
       ELSE IF h[r].debug
       THEN h' = [h EXCEPT ![r].pc = "clearAfter", ![r].keys = Append(@, "Enter")]
       ELSE h' = [h EXCEPT ![r].pc = "done", ![r].keys = Append(@, "Enter"),
                           ![r].result = ClearResult("Conversation cleared")]
    /\ UNCHANGED <<sessions, startVars, cap, debugInfo, served, answered, extractVars, preprocessVars, timeoutVars, captureVars, quoteVars, oneShotVars>>

\* getSessionDetails has returned afterState (server.ts 690-718)
ClearAfter(r) ==
    /\ h[r].pc = "clearAfter"
    /\ h' = [h EXCEPT ![r].pc = "done",
                      ![r].failed = IF Exists(r) THEN @ ELSE @ \cup {"masked"},
                      ![r].result = ClearResult("Conversation cleared")]
    /\ UNCHANGED <<sessions, startVars, cap, debugInfo, served, answered, extractVars, preprocessVars, timeoutVars, captureVars, quoteVars, oneShotVars>>

\* the result is sent to the client and the handler is gone
Respond(r) ==
    /\ h[r].pc = "done"
    /\ h' = [h EXCEPT ![r] = HandlerIdle]
    /\ cap' = [cap EXCEPT ![r] = CaptureInit]
    /\ answered' = IF h[r].result = CloseResult("Gemini session closed")
                   THEN "closed" ELSE h[r].result.kind
    /\ UNCHANGED <<sessions, startVars, debugInfo, served, extractVars, preprocessVars, timeoutVars, captureVars, quoteVars, oneShotVars>>

\* the gemini process exits or the session is killed from outside
SessionDies ==
    /\ \E s \in sessions : sessions' = sessions \ {s}
    /\ UNCHANGED <<startVars, h, cap, debugInfo, served, answered, extractVars, preprocessVars, timeoutVars, captureVars, quoteVars, oneShotVars>>

HandlerStep(r) ==
    \/ CheckSession(r) \/ NewSession(r) \/ CreateEnter(r)
    \/ SendText(r) \/ SendEnter(r)
    \/ CapturePoll(r) \/ CaptureFail(r) \/ CaptureTimeout(r)
    \/ Permission(r) \/ PermissionEnter(r)
    \/ CloseCheck(r) \/ Kill(r)
    \/ StatusCheck(r) \/ StatusDetails(r) \/ StatusOutput(r)
    \/ ClearCheck(r) \/ ClearBefore(r) \/ ClearText(r) \/ ClearEnter(r) \/ ClearAfter(r)
    \/ Respond(r)

AfterKillFailureFatal == "exited"

\* where main goes on when the kill-session of the sweep has failed: the
\* catch block logs and cleanupStaleSessions returns (server.ts 779-783, 789-791)
AfterKillFailure == "connect"

\* checkSession of cleanupStaleSessions has answered (server.ts 771-775, 789)
CleanupCheck ==
    /\ phase = "cleanupCheck"
    /\ phase' = IF HasSession(TargetSession(0)) THEN "cleanupKill" ELSE "connect"
    /\ UNCHANGED <<sessions, sweep, h, cap, debugInfo, served, answered, extractVars, preprocessVars, timeoutVars, captureVars, quoteVars, oneShotVars>>

\* the kill-session of cleanupStaleSessions has answered; its failure is
\* caught and logged (server.ts 775-783)
CleanupKill ==
    /\ phase = "cleanupKill"
    /\ IF HasSession(TargetSession(0))
       THEN phase' = "connect" /\ sweep' = "killed"
       ELSE phase' = AfterKillFailure /\ sweep' = "failed"
    /\ sessions' = {s \in sessions : s.name # TargetSession(0)}
    /\ UNCHANGED <<h, cap, debugInfo, served, answered, extractVars, preprocessVars, timeoutVars, captureVars, quoteVars, oneShotVars>>

\* server.connect has returned: the transport reads requests (server.ts 791-793)
Connect ==
    /\ phase = "connect"
    /\ phase' = "serving"
    /\ UNCHANGED <<sessions, sweep, h, cap, debugInfo, served, answered, extractVars, preprocessVars, timeoutVars, captureVars, quoteVars, oneShotVars>>

\* the initialize request of the client is answered with a result
\* (src/unnamed/part_003 23-67)
Initialize ==
    /\ phase = "serving"
    /\ phase' = "initialized"
    /\ UNCHANGED <<sessions, sweep, h, cap, debugInfo, served, answered, extractVars, preprocessVars, timeoutVars, captureVars, quoteVars, oneShotVars>>

Startup == CleanupCheck \/ CleanupKill \/ Connect \/ Initialize

\* the server has started
Init ==
    /\ ServerIdle
    /\ ExtractIdle
    /\ PreprocessIdle
    /\ TimeoutIdle
    /\ CaptureIdle
    /\ QuoteIdle
    /\ OneShotIdle

\* a client that sends a request only after the previous one was answered
Next ==
    \/ \E r \in Slots, in \in RequestInputs(served) : AllIdle /\ SendRequest(r, in)
    \/ \E r \in Slots : AllIdle /\ CloseRequest(r)
    \/ \E r \in Slots, full_output \in BOOLEAN : AllIdle /\ StatusRequest(r, full_output)
    \/ \E r \in Slots, debug \in BOOLEAN : AllIdle /\ ClearRequest(r, debug)
    \/ \E r \in Slots : HandlerStep(r)
    \/ SessionDies

Spec == Init /\ [][Next]_vars

\* the pipelined client sends as many requests as there are slots
Burst == served < MaxInFlight

\* a client that sends its requests without waiting for the answers
NextDispatch ==
    \/ \E r \in Slots, in \in PipelinedInputs : Burst /\ SendRequest(r, in)
    \/ \E r \in Slots : Burst /\ CloseRequest(r)
    \/ \E r \in Slots, full_output \in BOOLEAN : Burst /\ StatusRequest(r, full_output)
    \/ \E r \in Slots, debug \in BOOLEAN : Burst /\ ClearRequest(r, debug)
    \/ \E r \in Slots : HandlerStep(r)
    \/ SessionDies

SpecDispatch == Init /\ [][NextDispatch]_vars

\* the process has been started; a session of an earlier run may exist
InitStart ==
    /\ sessions \in {{}, {StaleSession}}
    /\ phase = "cleanupCheck"
    /\ sweep = "none"
    /\ h = [r \in Slots |-> HandlerIdle]
    /\ cap = [r \in Slots |-> CaptureInit]
    /\ debugInfo = DebugInfoInit
    /\ served = 0
    /\ answered = "none"
    /\ ExtractIdle
    /\ PreprocessIdle
    /\ TimeoutIdle
    /\ CaptureIdle
    /\ QuoteIdle
    /\ OneShotIdle

\* the start of the process, followed by a client that waits for each answer
NextStart ==
    \/ Startup
    \/ \E r \in Slots, in \in PipelinedInputs : AllIdle /\ SendRequest(r, in)
    \/ \E r \in Slots : AllIdle /\ CloseRequest(r)
    \/ \E r \in Slots, full_output \in BOOLEAN : AllIdle /\ StatusRequest(r, full_output)
    \/ \E r \in Slots, debug \in BOOLEAN : AllIdle /\ ClearRequest(r, debug)
    \/ \E r \in Slots : HandlerStep(r)
    \/ SessionDies

SpecStart == InitStart /\ [][NextStart]_vars

\* the tmux commands main awaits return, and the client sends initialize
\* once the server reads its input
SpecStartFair == SpecStart /\ WF_vars(Startup)

(***************************************************************************)
(* captureResponse of the earlier revision (server-v141-backup.ts 152-230) *)
(***************************************************************************)
\* the stable polls after which a snapshot with the prompt is returned
\* (server-v141-backup.ts 194)
StableCountPrompt_v141 == 2

\* the stable polls after which a snapshot without the prompt is returned
\* (server-v141-backup.ts 202)
StableCountQuiet_v141 == 3

\* "Simple processing detection" (server-v141-backup.ts 177-183)
SeenProcessing_v141(stdout) ==
    HasTok(stdout, SPIN) \/ HasTok(stdout, STATUS) \/ HasTok(stdout, STAR)

\* the indicators the second completion test excludes
\* (server-v141-backup.ts 203-205)
ActiveIndicator_v141(stdout) == HasTok(stdout, SPIN) \/ HasTok(stdout, STATUS)

\* the locals of the call at its start (server-v141-backup.ts 153-156)
CaptureInit_v141 ==
    [now |-> 0, lastOutput |-> <<>>, stableCount |-> 0, hasSeenProcessing |-> FALSE,
     failures |-> 0, lastCaptured |-> <<>>, identicalRun |-> 0]

\* the locals after a capture that returned stdout (server-v141-backup.ts 177-192)
AfterCapture_v141(c, stdout) ==
    LET changed == stdout # c.lastOutput
    IN  [c EXCEPT
            !.identicalRun = IF stdout = c.lastCaptured THEN @ + 1 ELSE 0,
            !.lastCaptured = stdout,
            !.hasSeenProcessing = @ \/ SeenProcessing_v141(stdout),
            !.stableCount = IF changed THEN 0 ELSE @ + 1,
            !.lastOutput = IF changed THEN stdout ELSE @]

\* the two completion tests of the stable branch (server-v141-backup.ts 190-211)
IsComplete_v141(c, stdout, changed) ==
    /\ ~changed
    /\ c.stableCount >= StableCountPrompt_v141
    /\ c.hasSeenProcessing
    /\ \/ HasTok(stdout, PROMPT)
       \/ c.stableCount >= StableCountQuiet_v141 /\ ~ActiveIndicator_v141(stdout)

\* a pane on which the status line and the input prompt are both shown
PaneBusy == Join(<<EchoLine, StatusLine, PromptLine>>)

Panes_v141 == Panes \cup {PaneBusy}

InitCapture_v141 ==
    /\ bTimeout \in {3000, 5000}
    /\ bDebug \in BOOLEAN
    /\ bCap = CaptureInit_v141
    /\ bOutcome = "polling"
    /\ bReturned = NoResult
    /\ ExtractIdle
    /\ PreprocessIdle
    /\ TimeoutIdle
    /\ QuoteIdle
    /\ OneShotIdle
    /\ ServerIdle

\* one pass of the loop whose capture-pane succeeds (server-v141-backup.ts 162-219)
CapturePoll_v141 ==
    /\ bOutcome = "polling"
    /\ bCap.now < bTimeout
    /\ \E stdout \in Panes_v141, lat \in Latencies :
          LET changed == stdout # bCap.lastOutput
              c == [AfterCapture_v141(bCap, stdout) EXCEPT !.now = @ + lat]
          IN  IF IsComplete_v141(c, stdout, changed)
              THEN bCap' = c /\ bOutcome' = "complete" /\ bReturned' = stdout
              ELSE IF HasTok(stdout, PROCEED)
              THEN bCap' = c /\ bOutcome' = "permission" /\ bReturned' = stdout
              ELSE /\ bCap' = [c EXCEPT !.now = @ + PollInterval]
                   /\ UNCHANGED <<bOutcome, bReturned>>
    /\ UNCHANGED <<bTimeout, bDebug, extractVars, preprocessVars, timeoutVars, quoteVars, oneShotVars, serverVars>>

\* whether the catch block of the loop throws the error again
\* (server-v141-backup.ts 220-223)
CaptureFailRethrown_v141(debug) == debug

\* one pass of the loop whose capture-pane fails (server-v141-backup.ts 162-169, 220-223)
CaptureFail_v141 ==
    /\ bOutcome = "polling"
    /\ bCap.now < bTimeout
    /\ \E lat \in FailLatencies :
          bCap' = [bCap EXCEPT !.now = @ + lat, !.failures = @ + 1]
    /\ bOutcome' = IF CaptureFailRethrown_v141(bDebug) THEN "thrown" ELSE bOutcome
    /\ UNCHANGED <<bTimeout, bDebug, bReturned, extractVars, preprocessVars, timeoutVars, quoteVars, oneShotVars, serverVars>>

\* the loop condition fails (server-v141-backup.ts 162, 226-229)
CaptureTimeout_v141 ==
    /\ bOutcome = "polling"
    /\ bCap.now >= bTimeout
    /\ bOutcome' = "timeout"
    /\ bReturned' = bCap.lastOutput
    /\ UNCHANGED <<bTimeout, bDebug, bCap, extractVars, preprocessVars, timeoutVars, quoteVars, oneShotVars, serverVars>>

NextCapture_v141 == CapturePoll_v141 \/ CaptureFail_v141 \/ CaptureTimeout_v141

SpecCapture_v141 == InitCapture_v141 /\ [][NextCapture_v141]_vars

\* a call of captureResponse of either revision
InitCaptures == Init \/ InitCapture_v141

\* the server serves requests in the runs that do not study the earlier call
ServerRuns == bOutcome = "none" /\ Next

NextCaptures == ServerRuns \/ NextCapture_v141

SpecCaptures == InitCaptures /\ [][NextCaptures]_vars

\* a call of the extractor, or a call of the earlier captureResponse, with
\* the debug flag on or off
InitDebug == InitExtract \/ InitCapture_v141

\* the extractor is called in the runs that do not study captureResponse
ExtractRuns == bOutcome = "none" /\ NextExtract

NextDebug == ExtractRuns \/ NextCapture_v141

SpecDebug == InitDebug /\ [][NextDebug]_vars

(***************************************************************************)
(* The command lines that carry the message (server.ts 111-125,            *)
(* src/unnamed/part_002 24)                                                *)
(***************************************************************************)
MaxQuoteLen == 3    \* characters of a message

DQ     == "<dq>"        \* the double quote
SQ     == "'"
BS     == "<bs>"        \* the backslash
DOLLAR == "$"
TICK   == "<bq>"        \* the backquote

\* the text Enter, which is also the name of a key
ENTER == "Enter"

\* the Enter key
KeyEnter == "<Enter>"

QuoteAlphabet == {DQ, SQ, BS, DOLLAR, TICK, "a", ENTER}

\* the characters a shell parameter name is made of
NameChars == {"a", ENTER}

\* what message.replace of sendOneShot puts for one character: a backslash
\* before every double quote (part_002 24)
EscapeChar(c) == IF c = DQ THEN <<BS, DQ>> ELSE <<c>>

RECURSIVE Escape(_)
\* message.replace of sendOneShot: every double quote escaped (part_002 24)
Escape(message) ==
    IF Len(message) = 0 THEN <<>>
    ELSE EscapeChar(message[1]) \o Escape(Tail(message))

RECURSIVE ShellScan(_, _, _, _, _)
\* sh reads the characters between the double quotes of the command line
\* of sendOneShot (part_002 24):
\* a backslash quotes a following double quote, backslash, dollar or
\* backquote and stays otherwise; a double quote ends or starts the quoting;
\* a dollar before a name is a parameter expansion; the text between two
\* backquotes is run as a command.  A quote or a backquote left open, and a
\* backslash before the closing double quote, are syntax errors.
ShellScan(s, i, acc, open, inTick) ==
    IF i > Len(s)
    THEN IF inTick \/ ~open THEN [acc EXCEPT !.failed = TRUE] ELSE acc
    ELSE LET c == s[i]
         IN  IF c = BS
             THEN IF i = Len(s) THEN [acc EXCEPT !.failed = TRUE]
                  ELSE IF inTick THEN ShellScan(s, i + 2, acc, open, inTick)
                  ELSE IF s[i + 1] \in {DQ, BS, DOLLAR, TICK} \/ ~open
                  THEN ShellScan(s, i + 2, [acc EXCEPT !.text = Append(@, s[i + 1])],
                                 open, inTick)
                  ELSE ShellScan(s, i + 2, [acc EXCEPT !.text = @ \o <<BS, s[i + 1]>>],
                                 open, inTick)
             ELSE IF c = TICK
             THEN ShellScan(s, i + 1, [acc EXCEPT !.interpreted = TRUE], open, ~inTick)
             ELSE IF inTick
             THEN ShellScan(s, i + 1, acc, open, inTick)
             ELSE IF c = DQ
             THEN ShellScan(s, i + 1, [acc EXCEPT !.interpreted = TRUE], ~open, inTick)
             ELSE IF c = DOLLAR /\ i < Len(s) /\ s[i + 1] \in NameChars
             THEN ShellScan(s, i + 2, [acc EXCEPT !.interpreted = TRUE], open, inTick)
             ELSE ShellScan(s, i + 1, [acc EXCEPT !.text = Append(@, c)], open, inTick)

\* the argument the command gets for the double-quoted word with this body
ShellWord(body) == ShellScan(body, 1, Delivered(<<>>), TRUE, FALSE)

\* what message.replace of sendMessage puts for one character: a single
\* quote becomes quote, backslash, quote, quote (server.ts 113)
EscapeSingleChar(c) == IF c = SQ THEN <<SQ, BS, SQ, SQ>> ELSE <<c>>

RECURSIVE EscapeSingle(_)
\* message.replace of sendMessage: every single quote escaped (server.ts 113)
EscapeSingle(message) ==
    IF Len(message) = 0 THEN <<>>
    ELSE EscapeSingleChar(message[1]) \o EscapeSingle(Tail(message))

RECURSIVE ShellScanSingle(_, _, _, _)
\* sh reads the characters that follow the opening single quote of the
\* command line: between single quotes every character stands for itself;
\* outside them a backslash quotes the next character, and a double quote,
\* dollar or backquote would be interpreted.  The closing quote of the
\* command line follows the body, so the body must end inside the quotes.
ShellScanSingle(s, i, acc, open) ==
    IF i > Len(s)
    THEN IF open THEN acc ELSE [acc EXCEPT !.failed = TRUE]
    ELSE LET c == s[i]
         IN  IF c = SQ THEN ShellScanSingle(s, i + 1, acc, ~open)
             ELSE IF open
             THEN ShellScanSingle(s, i + 1, [acc EXCEPT !.text = Append(@, c)], open)
             ELSE IF c = BS
             THEN IF i = Len(s) THEN [acc EXCEPT !.failed = TRUE]
                  ELSE ShellScanSingle(s, i + 2,
                                       [acc EXCEPT !.text = Append(@, s[i + 1])], open)
             ELSE IF c \in {DQ, DOLLAR, TICK}
             THEN ShellScanSingle(s, i + 1, [acc EXCEPT !.interpreted = TRUE], open)
             ELSE ShellScanSingle(s, i + 1, [acc EXCEPT !.text = Append(@, c)], open)

\* the argument the command gets for the single-quoted word with this body
ShellWordSingle(body) == ShellScanSingle(body, 1, Delivered(<<>>), TRUE)

\* the names tmux knows as keys, among the texts of the model
KeyNames == {<<ENTER>>}

\* tmux send-keys word, then tmux send-keys Enter: without -l an argument
\* that is the name of a key presses that key, any other argument is typed
\* (server.ts 116-125)
SendKeys(word) ==
    IF word.failed THEN [word EXCEPT !.text = <<>>]
    ELSE IF word.text \in KeyNames
    THEN [word EXCEPT !.text = <<KeyEnter, KeyEnter>>, !.interpreted = TRUE]
    ELSE [word EXCEPT !.text = @ \o <<KeyEnter>>]

\* echo word | gemini: the word and a line terminator (part_002 24)
Echo(word) ==
    IF word.failed THEN [word EXCEPT !.text = <<>>]
    ELSE [word EXCEPT !.text = @ \o <<NL>>]

InitQuote ==
    /\ qMessage \in SeqsUpTo(QuoteAlphabet, MaxQuoteLen)
    /\ qSent = NotSent
    /\ qPiped = NotSent
    /\ ExtractIdle
    /\ PreprocessIdle
    /\ TimeoutIdle
    /\ CaptureIdle
    /\ OneShotIdle
    /\ ServerIdle

\* sendMessage(message) of the tmux server (server.ts 111-125)
CallSendMessage ==
    /\ qSent = NotSent
    /\ qSent' = SendKeys(ShellWordSingle(EscapeSingle(qMessage)))
    /\ UNCHANGED <<qMessage, qPiped, extractVars, preprocessVars, timeoutVars, captureVars, oneShotVars, serverVars>>

\* the pipeline of sendOneShot(message) (part_002 24)
CallSendOneShot ==
    /\ qPiped = NotSent
    /\ qPiped' = Echo(ShellWord(Escape(qMessage)))
    /\ UNCHANGED <<qMessage, qSent, extractVars, preprocessVars, timeoutVars, captureVars, oneShotVars, serverVars>>

NextQuote == CallSendMessage \/ CallSendOneShot

SpecQuote == InitQuote /\ [][NextQuote]_vars

(***************************************************************************)
(* The one-shot server (src/unnamed/part_002)                              *)
(***************************************************************************)
MaxOutputChunks == 3    \* 'data' events of the child's stdout

\* by how much the clock of a pending request advances in one step
TickLengths == {1000}

CREDS == "Loaded cached credentials."

\* what one 'data' event of stdout may carry
OutputChunks ==
    {<<CREDS, NL>>, <<"r", NL>>, <<"r", SP, CREDS, NL>>, <<SP, NL>>, <<"s">>}

\* what one 'data' event of stderr carries
ErrorChunk == <<"e">>

ExitCodes == {0, 1}

OneShotTimeouts == {1000, 2000}

RECURSIVE FilterLines(_, _)
FilterLines(lines, keep) ==
    IF Len(lines) = 0 THEN <<>>
    ELSE IF keep[1] THEN <<lines[1]>> \o FilterLines(Tail(lines), Tail(keep))
    ELSE FilterLines(Tail(lines), Tail(keep))

KeepLineUnlessEqual(line) == line # <<CREDS>>

\* the filter callback (part_002 47)
KeepLine(line) == ~HasTok(line, CREDS)

\* cleanedOutput (part_002 45-49)
CleanedOutput(out) ==
    LET lines == Split(out)
    IN  Trim(Join(FilterLines(lines, [i \in 1..Len(lines) |-> KeepLine(lines[i])])))

Pending == <<"pending">>

Resolved(text) == <<"resolved", text>>

Rejected(message) == <<"rejected", message>>

TimeoutError == <<"Response timeout">>

SpawnError == <<"spawn sh ENOENT">>

ProcessError(err) == <<"Gemini process failed: ">> \o err

NoResponseReceived == <<"No response received from Gemini.">>

\* how the 'close' listener settles the promise (part_002 37-53)
OnClose(code, out, err) ==
    IF code # 0 /\ err # <<>>
    THEN Rejected(ProcessError(err))
    ELSE Resolved(CleanedOutput(out))

\* the text gemini_send returns for a settled race (part_002 93-109)
OneShotResult(race) ==
    IF race[1] = "resolved"
    THEN IF race[2] = <<>> THEN NoResponseReceived ELSE race[2]
    ELSE <<"Error: ">> \o race[2]

\* a settled promise stays as it is; Promise.race takes the first settlement
Settle(p) ==
    /\ promise' = IF promise = Pending THEN p ELSE promise
    /\ oneShot' = IF oneShot.pc = "awaiting" /\ oneShot.race = Pending /\ promise = Pending
                  THEN [oneShot EXCEPT !.race = p]
                  ELSE oneShot

\* the tmux server does not run
ServerOff ==
    /\ sessions = {}
    /\ phase = "off"
    /\ sweep = "none"
    /\ h = [r \in Slots |-> HandlerIdle]
    /\ cap = [r \in Slots |-> CaptureInit]
    /\ debugInfo = DebugInfoInit
    /\ served = 0
    /\ answered = "none"

\* everything but the one-shot server
tmuxVars == <<extractVars, preprocessVars, timeoutVars, captureVars, quoteVars, serverVars>>

\* the one-shot server has started and no request has arrived
InitOneShot ==
    /\ ExtractIdle
    /\ PreprocessIdle
    /\ TimeoutIdle
    /\ CaptureIdle
    /\ QuoteIdle
    /\ ServerOff
    /\ oneShot = [pc |-> "idle", timeout |-> 0, now |-> 0, race |-> Pending,
                  result |-> NoResult]
    /\ geminiProcess = [state |-> "none", code |-> 0]
    /\ output = <<>>
    /\ error = <<>>
    /\ promise = Pending

\* a gemini_send request arrives: the timer is set and sendOneShot spawns
\* the child (part_002 19-24, 78-91)
OneShotRequest(timeout) ==
    /\ oneShot.pc = "idle"
    /\ oneShot' = [oneShot EXCEPT !.pc = "awaiting", !.timeout = timeout]
    /\ geminiProcess' = [geminiProcess EXCEPT !.state = "running"]
    /\ UNCHANGED <<output, error, promise, tmuxVars>>

\* a 'data' event of stdout (part_002 29-31); a chunk without line terminator
\* is the last one
ChildStdout(chunk) ==
    /\ geminiProcess.state = "running"
    /\ Len(Split(output)) <= MaxOutputChunks
    /\ IF Len(output) = 0 THEN TRUE ELSE output[Len(output)] = NL
    /\ output' = output \o chunk
    /\ UNCHANGED <<oneShot, geminiProcess, error, promise, tmuxVars>>

\* a 'data' event of stderr (part_002 33-35)
ChildStderr ==
    /\ geminiProcess.state = "running"
    /\ error = <<>>
    /\ error' = error \o ErrorChunk
    /\ UNCHANGED <<oneShot, geminiProcess, output, promise, tmuxVars>>

\* the 'close' event (part_002 37-53)
ChildClose(code) ==
    /\ geminiProcess.state = "running"
    /\ geminiProcess' = [state |-> "closed", code |-> code]
    /\ Settle(OnClose(code, output, error))
    /\ UNCHANGED <<output, error, tmuxVars>>

\* the 'error' event: the child could not be spawned (part_002 55-57)
ChildError ==
    /\ geminiProcess.state = "running"
    /\ output = <<>> /\ error = <<>>
    /\ geminiProcess' = [geminiProcess EXCEPT !.state = "failed"]
    /\ Settle(Rejected(SpawnError))
    /\ UNCHANGED <<output, error, tmuxVars>>

\* time passes while the handler awaits the race
Tick ==
    /\ oneShot.pc = "awaiting"
    /\ oneShot.race = Pending
    /\ oneShot.now < oneShot.timeout
    /\ \E d \in TickLengths : oneShot' = [oneShot EXCEPT !.now = @ + d]
    /\ UNCHANGED <<geminiProcess, output, error, promise, tmuxVars>>

TimerNever(now, timeout) == FALSE

\* setTimeout(..., timeout): the callback is due (part_002 84)
TimerDue(now, timeout) == now >= timeout

\* the callback of setTimeout rejects timeoutPromise (part_002 83-85)
TimerFires ==
    /\ oneShot.pc = "awaiting"
    /\ oneShot.race = Pending
    /\ TimerDue(oneShot.now, oneShot.timeout)
    /\ oneShot' = [oneShot EXCEPT !.race = Rejected(TimeoutError)]
    /\ UNCHANGED <<geminiProcess, output, error, promise, tmuxVars>>

\* the race is settled and the handler returns (part_002 88-109)
OneShotReturn ==
    /\ oneShot.pc = "awaiting"
    /\ oneShot.race # Pending
    /\ oneShot' = [oneShot EXCEPT !.pc = "returned", !.result = OneShotResult(oneShot.race)]
    /\ UNCHANGED <<geminiProcess, output, error, promise, tmuxVars>>

OneShotStep == Tick \/ TimerFires \/ OneShotReturn

ChildStep ==
    \/ \E chunk \in OutputChunks : ChildStdout(chunk)
    \/ ChildStderr
    \/ \E code \in ExitCodes : ChildClose(code)
    \/ ChildError

NextOneShot ==
    \/ \E timeout \in OneShotTimeouts : OneShotRequest(timeout)
    \/ OneShotStep
    \/ ChildStep

SpecOneShot == InitOneShot /\ [][NextOneShot]_vars

\* either server has started
InitReturns == Init \/ InitOneShot

\* the steps of a gemini_send handler of the tmux server
SendStep(r) ==
    \/ CheckSession(r) \/ NewSession(r) \/ CreateEnter(r)
    \/ SendText(r) \/ SendEnter(r)
    \/ CapturePoll(r) \/ CaptureFail(r) \/ CaptureTimeout(r)
    \/ Permission(r) \/ PermissionEnter(r)
    \/ Respond(r)

\* one gemini_send request to either server
NextReturns ==
    \/ \E r \in Slots, in \in RequestInputs(served) : served = 0 /\ SendRequest(r, in)
    \/ \E r \in Slots : SendStep(r)
    \/ SessionDies
    \/ NextOneShot

\* the tmux commands a handler awaits return and its sleeps end; the timers
\* of the one-shot server fire and its handler goes on once the race is
\* settled.  Nothing is assumed about the child process.
SpecReturns ==
    /\ InitReturns
    /\ [][NextReturns]_vars
    /\ WF_vars(\E r \in Slots : SendStep(r))
    /\ WF_vars(OneShotStep)

(***************************************************************************)
(* Claims about the extractor                                              *)
(***************************************************************************)
LastLine(s) == Split(s)[Len(Split(s))]

\* C5: for every transcript and message (the empty ones and a transcript
\* without reference point included) the extractor returns a string, and the
\* string does not end in a blank line: it is empty or its last line holds
\* something other than white space.
C5_NoTrailingBlankLines ==
    xBy # "none" =>
        /\ xResult # NoResult
        /\ xResult = <<>> \/ Trim(LastLine(xResult)) # <<>>

\* the loop collected lines that end in a blank line, and a reply was returned
C5_Witness ==
    /\ xBy = "server"
    /\ Len(xLines) > 1
    /\ xLines[Len(xLines)] = BlankLine
    /\ xResult # <<>>
    /\ xIndex = -1
    /\ ~xDebug

\* C6: on a transcript made of the echoed message, spinner/status lines, one
\* reply line that starts with the reply glyph, and the prompt line, the
\* extractor returns exactly the reply line with its glyph.
C6_ScenarioC ==
    (xBy # "none" /\ xMessage = MsgA /\ xOutput \in {Join(ls) : ls \in ScenarioCLines})
        => xResult = StarLine

\* C7: when several lines hold the message, the reference point is the last
\* of them.
C7_LastEcho ==
    LET lines  == Split(xOutput)
        echoes == {i \in 0..(Len(lines) - 1) : Includes(lines[i + 1], xMessage)}
    IN  (xBy # "none" /\ xMessage # <<>> /\ Cardinality(echoes) > 1)
            => xIndex = MaxIndex(echoes)

\* The candidate region described line by line (0-based indices j >= from).
C8_FenceOpen(lines, from, j) ==
    Cardinality({k \in from..j : codeBlock(lines[k + 1])}) % 2 = 1

C8_BoxOpen(lines, from, j) ==
    Cardinality({k \in from..j : boxBorder(lines[k + 1])}) % 2 = 1

C8_Outside(lines, from, j) ==
    ~C8_FenceOpen(lines, from, j) /\ ~C8_BoxOpen(lines, from, j)

\* the first line of the region that is not noise, Len(lines) if there is none
C8_First(lines, from) ==
    LET S == {j \in from..(Len(lines) - 1) :
                 \/ codeBlock(lines[j + 1])
                 \/ boxBorder(lines[j + 1])
                 \/ ~(\/ processing(lines[j + 1])
                      \/ searchingStatus(lines[j + 1])
                      \/ geminiStart(lines[j + 1])
                      \/ Trim(lines[j + 1]) = <<>>)}
    IN  IF S = {} THEN Len(lines) ELSE MinIndex(S)

\* a blank line outside every fence and box
C8_Empty(lines, from, j) ==
    Trim(lines[j + 1]) = <<>> /\ C8_Outside(lines, from, j)

\* line j ends a run of at least n such blank lines that began after line f
C8_BlankRun(lines, from, f, j, n) ==
    /\ j - n >= f
    /\ \A k \in (j - n + 1)..j : C8_Empty(lines, from, k)

\* the first line from f on that holds the prompt token or the shell marker
C8_EndOriginal(lines, f) ==
    LET S == {j \in f..(Len(lines) - 1) :
                 geminiPrompt(lines[j + 1]) \/ Includes(lines[j + 1], <<SHELL>>)}
    IN  IF S = {} THEN Len(lines) ELSE MinIndex(S)

\* the first line from f on, outside every fence and box, that holds the prompt
\* token or the shell marker, is a lone "!", starts with "Using <n> MCP", or is
\* the fourth blank line in a row
C8_EndAmended(lines, from, f) ==
    LET S == {j \in f..(Len(lines) - 1) :
                 /\ C8_Outside(lines, from, j)
                 /\ \/ geminiPrompt(lines[j + 1])
                    \/ Includes(lines[j + 1], <<SHELL>>)
                    \/ Trim(lines[j + 1]) = <<BANG>>
                    \/ promptReturn(lines[j + 1])
                    \/ C8_BlankRun(lines, from, f, j, 4)}
    IN  IF S = {} THEN Len(lines) ELSE MinIndex(S)

C8_LoopRan == xBy = "server" /\ ~(xDebug /\ xIndex = -1)

\* C8 as stated: from the first non-noise line on, every line before the first
\* line with the prompt token or the shell marker is in the reply, and nothing
\* else ends the region.
C8_RegionEndsOnlyAtPrompt ==
    LET lines == Split(xOutput)
        f     == C8_First(lines, xIndex + 1)
    IN  C8_LoopRan =>
            xResult = Trim(Join(SubSeq(lines, f + 1, C8_EndOriginal(lines, f))))

\* C8 amended: from the first non-noise line on, the reply holds every line up
\* to (not including) the first line outside every code fence and box that
\* holds the prompt token or the shell marker, is a lone "!", starts with
\* "Using <n> MCP" or is the fourth consecutive blank line; the lines are
\* joined and white space is stripped from the two ends of the result.
C8_RegionEnds ==
    LET lines == Split(xOutput)
        f     == C8_First(lines, xIndex + 1)
        e     == C8_EndAmended(lines, xIndex + 1, f)
    IN  C8_LoopRan =>
            /\ xLines = SubSeq(lines, f + 1, e)
            /\ xResult = Trim(Join(xLines))

\* a run of four blank lines cut the reply short: text follows the run
C8_Witness ==
    LET lines == Split(xOutput)
        f     == C8_First(lines, xIndex + 1)
        e     == C8_EndAmended(lines, xIndex + 1, f)
    IN  /\ C8_LoopRan
        /\ xLines # <<>>
        /\ e < C8_EndOriginal(lines, f)
        /\ C8_BlankRun(lines, xIndex + 1, f, e, 4)
        /\ \E j \in (e + 1)..(Len(lines) - 1) : lines[j + 1] = TextLine

(***************************************************************************)
(* Claims about preprocessMessage                                          *)
(***************************************************************************)
\* the words of a message: split at the blank
RECURSIVE C9_Words(_, _, _)
C9_Words(m, i, cur) ==
    IF i > Len(m) THEN <<cur>>
    ELSE IF m[i] = SP THEN <<cur>> \o C9_Words(m, i + 1, <<>>)
    ELSE C9_Words(m, i + 1, Append(cur, m[i]))

\* the path the token of a word names: the token is what follows the first
\* "@" of the word, and a relative token is taken in the working directory
C9_Named(word) ==
    LET ats == {i \in 1..Len(word) : word[i] = AT}
        p   == CHOOSE i \in ats : \A j \in ats : i <= j
        tok == SubSeq(word, p + 1, Len(word))
    IN  IF ats = {} \/ tok = <<>> THEN <<>>
        ELSE IF tok[1] = SLASH THEN tok
        ELSE WorkDir \o <<SLASH>> \o tok

\* two paths name the same entry
C9_SameEntry(a, b) == SegmentsFrom(a, 1, <<>>) = SegmentsFrom(b, 1, <<>>)

\* out is what the claim allows for word: "@" and an absolute path of the
\* entry if the token names an existing entry, the word itself otherwise
C9_WordOk(word, out, existing) ==
    LET ats  == {i \in 1..Len(word) : word[i] = AT}
        p    == CHOOSE i \in ats : \A j \in ats : i <= j
        path == SubSeq(out, p + 1, Len(out))
    IN  IF C9_Named(word) # <<>> /\ \E e \in existing : C9_SameEntry(e, C9_Named(word))
        THEN /\ Len(out) > p
             /\ SubSeq(out, 1, p) = SubSeq(word, 1, p)
             /\ path[1] = SLASH
             /\ C9_SameEntry(path, C9_Named(word))
        ELSE out = word

\* C9: every "@token" whose token names an existing entry, relative to the
\* working directory, is rewritten to "@" and an absolute path of the entry;
\* every other character of the message, the tokens that do not resolve
\* included, is left as it was.
C9_Rewrite ==
    pResult # NoResult =>
        LET words == C9_Words(pMessage, 1, <<>>)
            outs  == C9_Words(pResult, 1, <<>>)
        IN  /\ Len(outs) = Len(words)
            /\ \A i \in 1..Len(words) : C9_WordOk(words[i], outs[i], pExisting)

\* Scenario D, both halves: a resolving token was expanded and another token
\* of the same message was left alone
C9_Witness ==
    /\ pMessage = <<AT, "f", SP, AT, "x">>
    /\ pResult = <<AT>> \o WorkDir \o <<SLASH, "f", SP, AT, "x">>

(***************************************************************************)
(* Claims about captureResponse and the handlers                           *)
(***************************************************************************)
\* C1: a captureResponse call none of whose snapshots held a processing
\* indicator (spinner glyph or status word) ends through the permission marker
\* or through the timeout, never through the completion path
C1_NoCompletionWithoutIndicator ==
    \A r \in Slots :
        (cap[r].outcome # "none" /\ ~cap[r].everIndicator)
            => cap[r].outcome \in {"permission", "timeout"}

\* C2: whenever the snapshot captured last by a captureResponse call holds
\* "Do you want to proceed?", the call has returned it as a permission prompt
\* and gemini_send has called handlePermissionRequest for this call
C2_PermissionPriority ==
    \A r \in Slots :
        HasTok(cap[r].lastCaptured, PROCEED)
            => /\ cap[r].outcome = "permission"
               /\ h[r].response = cap[r].lastCaptured
               /\ h[r].handled = h[r].captures

\* C3: when captureResponse ends by timeout, gemini_send has received the
\* snapshot captured last (the empty string if none was) and returns a text
\* result that is not an "Error:" result
C3_TimeoutReturnsLastSnapshot ==
    \A r \in Slots :
        cap[r].outcome = "timeout"
            => /\ h[r].pc = "done"
               /\ h[r].response = cap[r].lastCaptured
               /\ h[r].result.kind = "text"
               /\ h[r].result.text[1] # "Error:"

\* a timeout after a non-empty snapshot was captured
C3_Witness ==
    \E r \in Slots :
        /\ cap[r].outcome = "timeout"
        /\ h[r].pc = "done"
        /\ h[r].response = PaneSpin
        /\ h[r].result.kind = "text"

\* the result says that the capture timed out: it is the "No response
\* captured" text, or its debug report lists response_capture_timeout
C4_Labeled(result) ==
    \/ result.text = NoResponseText
    \/ \E i \in 1..Len(result.debug.timings) :
          result.debug.timings[i] = "response_capture_timeout"

\* C4: the result of a gemini_send request whose capture ended by timeout is
\* labeled as timed out
C4_TimeoutIsLabeled ==
    \A r \in Slots :
        h[r].pc = "done" /\ cap[r].outcome = "timeout" => C4_Labeled(h[r].result)

\* the gemini_send request of slot q has not returned its result
C10_Pending(q) == h[q].tool = "gemini_send" /\ h[q].pc \notin {"idle", "done"}

\* the handler of slot r takes a step in which a tmux command sent keys to
\* the session, captured its pane or killed it
C10_Acts(r) ==
    /\ h'[r] # h[r] \/ cap'[r] # cap[r]
    /\ \/ h[r].pc \in {"createEnter", "sendText", "sendEnter", "permission",
                        "permissionEnter", "kill"}
       \/ h[r].pc = "poll" /\ cap[r].now < h[r].timeout

\* C10: no handler acts on the session while an earlier gemini_send request
\* has not returned its result
C10_OneAtATime ==
    [][\A r, q \in Slots :
          C10_Acts(r) /\ q # r /\ C10_Pending(q) => h[q].id > h[r].id]_vars


(***************************************************************************)
(* Claims about the start of the server                                    *)
(***************************************************************************)
\* C12: a tool request is served only after cleanupStaleSessions has
\* finished and the transport is connected, and whenever a request is being
\* served or has been served, no session made by an earlier run exists.
C12_SweepBeforeServing ==
    (served > 0 \/ \E r \in Slots : ~Idle(r)) =>
        /\ phase \in {"serving", "initialized"}
        /\ \A s \in sessions : s.run # "previous"

\* the first request is being served after the sweep killed a stale session
C12_Witness ==
    /\ sweep = "killed"
    /\ served = 1
    /\ \E r \in Slots : h[r].pc = "checkSession" /\ h[r].id = 1
    /\ sessions = {}

\* C13: once started, the server comes to serve and answers the initialize
\* request, with and without a stale session, and also when the kill-session
\* of the sweep fails.
C13_ReachesServing == <>(phase = "initialized")

\* the kill of the stale session failed and initialize has been answered
C13_Witness ==
    /\ sweep = "failed"
    /\ phase = "initialized"

(***************************************************************************)
(* Claims about the session                                                *)
(***************************************************************************)
\* C11: whatever requests of the four tools have been made, one after the
\* other or overlapping, at most one tmux session of the adapter exists.
C11_AtMostOneSession == Cardinality(sessions) <= 1

\* two overlapping gemini_send requests both found no session: one created
\* it, tmux refused the other the name
C11_Witness ==
    /\ session
    /\ \E r \in Slots :
          /\ h[r].pc = "done"
          /\ h[r].tool = "gemini_send"
          /\ h[r].result = ErrorResult("tmux new-session")
    /\ \E q \in Slots : h[q].tool = "gemini_send" /\ h[q].pc = "poll"

\* C14: a gemini_send request issues new-session exactly when its
\* checkSession found no session, and never when it found one; when a
\* gemini_close has answered that it closed the session, no session exists,
\* and the gemini_send request that follows finds none and creates one.
C14_LazyCreation ==
    \A r \in Slots :
        /\ (h[r].tool = "gemini_send" /\ h[r].pc \notin {"idle", "checkSession"}) =>
              /\ h[r].creates = IF h[r].sessionExists THEN 0 ELSE 1
              /\ h[r].after = "closed" => ~h[r].sessionExists
        /\ (h[r].pc = "done" /\ h[r].result = CloseResult("Gemini session closed")) =>
              ~session

\* the request after a successful gemini_close has created a session and polls it
C14_Witness ==
    \E r \in Slots :
        /\ h[r].tool = "gemini_send"
        /\ h[r].after = "closed"
        /\ h[r].pc = "poll"
        /\ h[r].creates = 1
        /\ sessions = {[name |-> SESSION_NAME, run |-> "this"]}

(***************************************************************************)
(* Claims about the permission prompt                                      *)
(***************************************************************************)
\* what a gemini_send request types before handlePermissionRequest is called
C15_Before(r) ==
    (IF h[r].creates = 1 THEN <<"Enter">> ELSE <<>>) \o <<"message", "Enter">>

\* the keys the claim gives for an auto_permission argument
C15_Keys(given) ==
    CASE given \in {"once", NoPolicy} -> <<"Enter">>
      [] given = "always" -> <<"Down", "Enter">>
      [] given = "no" -> <<"Escape">>

\* C15: when handlePermissionRequest has returned, what it typed into the
\* session is Enter for "once", Down then Enter for "always", Escape for
\* "no", and Enter when the request has no auto_permission; it typed nothing
\* else.
C15_Keystrokes ==
    \A r \in Slots :
        (h[r].tool = "gemini_send" /\ h[r].handled = 1 /\ h[r].captures = 2) =>
            h[r].keys = C15_Before(r) \o C15_Keys(h[r].given)

\* handlePermissionRequest has returned for a request without auto_permission
C15_Witness ==
    \E r \in Slots :
        /\ h[r].tool = "gemini_send"
        /\ h[r].given = NoPolicy
        /\ h[r].handled = 1
        /\ h[r].captures = 2
        /\ h[r].keys = <<"Enter", "message", "Enter", "Enter">>

\* C16: handlePermissionRequest is called at most once per request, and only
\* when the first captureResponse call returned a snapshot with the marker;
\* a request that called it and returned a reply ran captureResponse a second
\* time, and its reply is the extraction of what that second call returned.
C16_PermissionThenSecondRun ==
    \A r \in Slots :
        h[r].tool = "gemini_send" =>
            /\ h[r].handled <= 1
            /\ h[r].handled = 1 => HasTok(h[r].first, PROCEED)
            /\ (h[r].handled = 1 /\ h[r].pc = "poll") => h[r].captures = 2
            /\ (h[r].handled = 1 /\ h[r].pc = "done" /\ h[r].result.kind = "text") =>
                  /\ h[r].captures = 2
                  /\ cap[r].outcome # "none"
                  /\ h[r].response = cap[r].lastCaptured
                  /\ h[r].result.text =
                        SendResult(extractGeminiResponse(h[r].response,
                                                         h[r].processedMessage,
                                                         h[r].debug),
                                   FALSE, debugInfo).text

\* after the permission response the second run completed on a reply, which
\* was returned
C16_Witness ==
    \E r \in Slots :
        /\ h[r].tool = "gemini_send"
        /\ h[r].pc = "done"
        /\ h[r].handled = 1
        /\ h[r].first = PanePerm
        /\ cap[r].outcome = "complete"
        /\ h[r].response = PaneText
        /\ h[r].result.text # NoResponseText

(***************************************************************************)
(* Claims about results and errors                                         *)
(***************************************************************************)
\* C17: a gemini_send request whose extraction is empty returns the fixed
\* "No response captured..." text as an ordinary text result, and no
\* gemini_send result, error results included, has an empty text.
C17_NeverEmpty ==
    \A r \in Slots :
        (h[r].tool = "gemini_send" /\ h[r].pc = "done") =>
            /\ h[r].result.text # <<>>
            /\ h[r].result.kind \in {"text", "error"}
            /\ (/\ h[r].captures > 0
                /\ h[r].result.kind = "text"
                /\ extractGeminiResponse(h[r].response, h[r].processedMessage,
                                         h[r].debug) = <<>>)
                  => h[r].result.text = NoResponseText

\* the pane was captured, the extraction is empty, the fixed text is returned
C17_Witness ==
    \E r \in Slots :
        /\ h[r].tool = "gemini_send"
        /\ h[r].pc = "done"
        /\ h[r].response = PaneEcho
        /\ h[r].result.kind = "text"
        /\ h[r].result.text = NoResponseText

\* C18 as stated: whenever a tmux command of a request has failed, the
\* request is answered with a payload that describes the error.
C18_EveryFailureReported ==
    \A r \in Slots :
        (h[r].pc = "done" /\ h[r].failed # {}) => h[r].result.kind = "error"

\* how the error text of each tool begins (server.ts 518, 640, 715, 763)
C18_Prefix(tool) ==
    CASE tool = "gemini_send" -> "Error:"
      [] tool = "gemini_session_status" -> "Error checking session:"
      [] tool = "gemini_clear" -> "Error clearing conversation:"
      [] tool = "gemini_close" -> "Error closing session:"

\* C18, amended: no failure of a tmux command leaves a handler without an
\* answer or ends the process.  A request one of whose commands failed in the
\* catch block of its handler is answered with the error text of its tool; a
\* request whose failures were all masked (capture-pane inside
\* captureResponse, the commands of getSessionDetails, the capture-pane
\* piped into tail) is answered with an ordinary text.
C18_FailuresAreAnswered ==
    /\ phase = "initialized"
    /\ \A r \in Slots :
          /\ h[r].pc # "crashed"
          /\ (h[r].pc = "done" /\ "command" \in h[r].failed) =>
                /\ h[r].result.kind = "error"
                /\ Head(h[r].result.text) = C18_Prefix(h[r].tool)
          /\ (h[r].pc = "done" /\ h[r].failed = {"masked"}) =>
                h[r].result.kind = "text"
          /\ (h[r].pc = "done" /\ h[r].failed = {}) => h[r].result.kind = "text"

\* the request before was answered with an error, and this one, whose
\* capture-pane commands failed, has its answer too
C18_Witness ==
    \E r \in Slots :
        /\ h[r].after = "error"
        /\ h[r].tool = "gemini_send"
        /\ h[r].pc = "done"
        /\ h[r].failed = {"masked"}
        /\ h[r].result.kind = "text"

(***************************************************************************)
(* Claims about the timeout detection                                      *)
(***************************************************************************)
\* whether the message, in any case of letters, holds a keyword
C19_HasKeyword(message) ==
    \E k \in SearchKeywords : HasTok(ToLowerCase(message), k)

\* C19: the timeout used is the timeout argument whenever the request has
\* one; otherwise it is 30000 ms when the message holds one of the keywords,
\* in any case of letters, and 10000 ms when it holds none.
C19_Budget ==
    tResult # <<>> =>
        tResult[1] = IF tTimeout # <<>> THEN tTimeout[1]
                     ELSE IF C19_HasKeyword(tMessage) THEN DEFAULT_TIMEOUT
                     ELSE SIMPLE_TIMEOUT

(***************************************************************************)
(* Claims about sending                                                    *)
(***************************************************************************)
\* how often a request has typed its message into the session
C20_Sends(r) == Cardinality({i \in 1..Len(h[r].keys) : h[r].keys[i] = "message"})

C21_FailureDoesNotEndCall ==
    bCap.failures > 0 => bOutcome \in {"polling", "complete", "permission", "timeout"}

\* C22: within one captureResponse call the capture attempt that follows
\* another one starts at least one poll interval after it, whether the
\* earlier attempt succeeded or failed.  A step from the polling loop into
\* the polling loop of the same call, with budget left, is one attempt
\* followed by the next; cap.now is when an attempt starts.
C22_PollInterval ==
    [][\A r \in Slots :
          (/\ h[r].pc = "poll" /\ h'[r].pc = "poll"
           /\ h'[r].captures = h[r].captures
           /\ cap'[r] # cap[r]
           /\ cap'[r].now < h[r].timeout)
          => cap'[r].now - cap[r].now >= PollInterval]_vars

\* C30: a snapshot that captureResponse returns through its completion
\* path holds no spinner glyph and no status word.  Stated for the earlier
\* revision.
C30_CompleteWithoutIndicator ==
    bOutcome = "complete" => ~HasTok(bReturned, SPIN) /\ ~HasTok(bReturned, STATUS)

(***************************************************************************)
(* Claims about the session tools                                          *)
(***************************************************************************)
C29_Tools == {"gemini_session_status", "gemini_clear", "gemini_close"}

\* the text each tool answers when checkSession finds no session
C29_NoSessionText(tool) ==
    CASE tool = "gemini_session_status" -> <<"No active Gemini session">>
      [] tool = "gemini_clear" -> <<"No active session to clear">>
      [] tool = "gemini_close" -> <<"No active session to close">>

\* what the requests of the three tools have done so far
C29_Effects ==
    \A r \in Slots :
        h[r].tool \in C29_Tools =>
            /\ h[r].creates = 0
            /\ h[r].tool # "gemini_clear" => h[r].keys = <<>>
            /\ h[r].keys \in {<<>>, <<"/clear">>, <<"/clear", "Enter">>}
            /\ (h[r].pc = "done" /\ h[r].result.text = <<"Conversation cleared">>)
                   => h[r].keys = <<"/clear", "Enter">>

\* what one step of a handler of the three tools does to the sessions, and
\* what the step does that learns that there is no session
C29_Steps ==
    \A r \in Slots :
        (h[r].tool \in C29_Tools /\ h'[r] # h[r] /\ ~Idle(r)) =>
            /\ sessions' \subseteq sessions
            /\ h[r].tool # "gemini_close" => sessions' = sessions
            /\ (h[r].pc \in {"statusCheck", "clearCheck", "closeCheck"} /\ ~Exists(r))
                   => /\ h'[r].pc = "done"
                      /\ h'[r].result.kind = "text"
                      /\ h'[r].result.text = C29_NoSessionText(h[r].tool)
                      /\ h'[r].keys = <<>>

\* C29: gemini_session_status, gemini_clear and gemini_close never create a
\* session; when there is none each answers its "no active session" text
\* and types nothing; gemini_clear on an existing session types "/clear" and
\* then Enter, nothing else, and does not end the session.
C29_NoSessionCreated == []C29_Effects /\ [][C29_Steps]_vars

\* gemini_clear has answered "Conversation cleared" on a session that exists
C29_Witness ==
    \E r \in Slots :
        /\ h[r].tool = "gemini_clear" /\ h[r].pc = "done"
        /\ h[r].result.text = <<"Conversation cleared">>
        /\ h[r].keys = <<"/clear", "Enter">>
        /\ session

(***************************************************************************)
(* Claims about the one-shot server                                        *)
(***************************************************************************)
\* the request has returned because the timer fired
C24_TimedOut == oneShot.pc = "returned" /\ oneShot.race = Rejected(TimeoutError)

\* C24: when a gemini_send request of the one-shot server has ended by its
\* timeout, the child process it spawned does not run any more.
C24_ChildTerminated == C24_TimedOut => geminiProcess.state # "running"

\* C25: a gemini_send request of the one-shot server that has ended by its
\* timeout returns a result, not an "Error: ..." text.
C25_TimeoutIsNoError ==
    (oneShot.pc = "returned" /\ oneShot.race = Rejected(TimeoutError))
        => oneShot.result[1] # "Error: "

\* C27: when the child could not be spawned or has exited with a code other
\* than 0, the gemini_send request that spawned it returns an "Error: ..." text.
C27_FailureIsError ==
    (/\ oneShot.pc = "returned"
     /\ \/ geminiProcess.state = "failed"
        \/ geminiProcess.state = "closed" /\ geminiProcess.code # 0)
        => oneShot.result[1] = "Error: "

RECURSIVE C28_Kept(_)
\* the lines that do not hold the credentials notice, in their order
C28_Kept(lines) ==
    IF Len(lines) = 0 THEN <<>>
    ELSE IF HasTok(lines[1], CREDS) THEN C28_Kept(Tail(lines))
    ELSE <<lines[1]>> \o C28_Kept(Tail(lines))

C28_Blank(line) == \A k \in 1..Len(line) : line[k] \in Whitespace

\* text is made of the lines kept, from the first to the last that is not
\* blank, the first without its leading and the last without its trailing
\* white space
C28_SameLines(kept, text) ==
    LET solid == {i \in 1..Len(kept) : ~C28_Blank(kept[i])}
        T == Split(text)
    IN  IF solid = {} THEN text = <<>>
        ELSE LET i == CHOOSE x \in solid : \A y \in solid : x <= y
                 j == CHOOSE x \in solid : \A y \in solid : x >= y
             IN  /\ Len(T) = j - i + 1
                 /\ \A k \in 1..Len(T) :
                       T[k] = IF i = j THEN Trim(kept[i])
                              ELSE IF k = 1 THEN TrimLeft(kept[i])
                              ELSE IF k = Len(T) THEN TrimRight(kept[j])
                              ELSE kept[i + k - 1]

\* C28: the text sendOneShot resolves with has no line that includes
\* "Loaded cached credentials."; the other lines of the child's stdout are
\* in it, in their order, up to the white space at the two ends of the text.
C28_CredentialsFiltered ==
    promise[1] = "resolved" =>
        /\ \A i \in 1..Len(Split(promise[2])) : ~HasTok(Split(promise[2])[i], CREDS)
        /\ C28_SameLines(C28_Kept(Split(output)), promise[2])

\* resolved with text, from an output with the notice on a line of its own,
\* the notice inside another line, and white space at an end
C28_Witness ==
    /\ promise[1] = "resolved" /\ promise[2] # <<>>
    /\ \E i \in 1..Len(Split(output)) : Split(output)[i] = <<CREDS>>
    /\ \E i \in 1..Len(Split(output)) : Split(output)[i] = <<"r", SP, CREDS>>
    /\ Trim(output) # output

(***************************************************************************)
(* Claims about termination                                                *)
(***************************************************************************)
\* a gemini_send handler of either server has not returned yet
C23_Pending ==
    \/ \E r \in Slots : h[r].tool = "gemini_send" /\ h[r].pc \notin {"idle", "done"}
    \/ oneShot.pc = "awaiting"

C26_RoundTrip ==
    /\ qSent # NotSent => qSent = Delivered(qMessage \o <<KeyEnter>>)
    /\ qPiped # NotSent => qPiped = Delivered(qMessage \o <<NL>>)


(***************************************************************************)
(* C31: captureResponse returns through the completion path only after at  *)
(* least 3 captures in a row that were each equal to the capture before    *)
(* it; a capture that differs from the one before sets the stable count to *)
(* zero and becomes the snapshot later captures are compared with.         *)
(***************************************************************************)
\* the claim as stated: three identical captures in a row before completion
C31_ThreeStablePolls ==
    /\ \A r \in Slots : cap[r].outcome = "complete" => cap[r].identicalRun >= 3
    /\ bOutcome = "complete" => bCap.identicalRun >= 3



C31_Completion ==
    /\ \A r \in Slots :
          cap[r].outcome = "complete" => cap[r].identicalRun >= 2
    /\ bOutcome = "complete" => bCap.identicalRun >= 2

\* a capture that differs from the capture before it
C31_Reset ==
    /\ \A r \in Slots :
          cap'[r].lastCaptured # cap[r].lastCaptured =>
              /\ cap'[r].stableCount = 0
              /\ cap'[r].lastOutput = cap'[r].lastCaptured
    /\ (bOutcome = "polling" /\ bCap'.lastCaptured # bCap.lastCaptured) =>
              /\ bCap'.stableCount = 0
              /\ bCap'.lastOutput = bCap'.lastCaptured

\* C31 as amended: at least 2 identical captures in a row before the
\* completion path returns, and every differing capture resets the count
\* and becomes the reference
C31_StablePolls == []C31_Completion /\ [][C31_Reset]_vars

\* a call of server.ts has returned as complete after exactly two identical
\* captures, and had reset its count on the way
C31_Witness ==
    \E r \in Slots :
        /\ cap[r].outcome = "complete"
        /\ cap[r].identicalRun = 2
        /\ ~cap[r].hasSeenProcessing

(***************************************************************************)
(* C32: whenever captureResponse returns because of its permission UI      *)
(* check, gemini_send treats the return as a permission prompt; the        *)
(* snapshot is never given to the extractor and answered as the reply.     *)
(***************************************************************************)
C32_PermissionStopHandled ==
    \A r \in Slots :
        (h[r].pc = "done" /\ h[r].result.kind = "text") =>
            cap[r].outcome # "permission"

(***************************************************************************)
(* C33: the reply returned for a request holds only output that follows    *)
(* the request's own message on the pane: when the pane still shows an     *)
(* earlier exchange, with the same message text or not, no line of the     *)
(* earlier exchange is part of the reply.                                  *)
(***************************************************************************)
\* the lines of the transcript on which the message is echoed (0-based)
C33_Echoes(lines, userMessage) ==
    {i \in 0..(Len(lines) - 1) : MatchesMessage(lines[i + 1], userMessage)}

\* line is one of the transcript lines after line index from
C33_After(lines, from, line) ==
    \E j \in (from + 1)..(Len(lines) - 1) : Trim(lines[j + 1]) = Trim(line)

C33_OwnReplyOnly ==
    (xBy = "server" /\ xMessage # MsgEmpty) =>
        LET lines == Split(xOutput)
            echoes == C33_Echoes(lines, xMessage)
            reply == Split(xResult)
        IN  echoes # {} =>
                \A k \in 1..Len(reply) :
                    \/ Trim(reply[k]) = <<>>
                    \/ C33_After(lines, MaxIndex(echoes), reply[k])

(***************************************************************************)
(* C34: when no line of the transcript holds the message, the reference    *)
(* point is the line before the last line that holds a spinner glyph, a    *)
(* status word or the reply glyph at its start, so that this marker line   *)
(* is the first line of the candidate region.                              *)
(***************************************************************************)
\* the marker lines of the transcript (0-based)
C34_Markers(lines) ==
    {i \in 0..(Len(lines) - 1) :
        \/ HasTok(lines[i + 1], SPIN)
        \/ HasTok(lines[i + 1], STATUS)
        \/ geminiStart(lines[i + 1])}

C34_MarkerInRegion ==
    xBy = "server" =>
        LET lines == Split(xOutput)
        IN  (C33_Echoes(lines, xMessage) = {} /\ C34_Markers(lines) # {}) =>
                xIndex + 1 = MaxIndex(C34_Markers(lines))

(***************************************************************************)
(* C35: the reply returned by extractGeminiResponse holds no line with the *)
(* prompt token, and no line that lies after the first line with the       *)
(* prompt token that follows the reference point.                          *)
(***************************************************************************)
\* the first line after the reference point on which holds(j) is true,
\* Len(lines) if there is none
C35_FirstPrompt(lines, from, outsideOnly) ==
    LET S == {j \in from..(Len(lines) - 1) :
                 /\ geminiPrompt(lines[j + 1])
                 /\ outsideOnly => C8_Outside(lines, from, j)}
    IN  IF S = {} THEN Len(lines) ELSE MinIndex(S)

\* line occurs among the transcript lines from..(to - 1) for which the
\* flags of the loop are as inside tells
C35_Between(lines, from, to, line, insideOnly) ==
    \E j \in from..(to - 1) :
        /\ Trim(lines[j + 1]) = Trim(line)
        /\ insideOnly => ~C8_Outside(lines, from, j)

\* the claim as stated
C35_NoPromptLine ==
    xBy = "server" =>
        LET lines == Split(xOutput)
            reply == Split(xResult)
            from  == xIndex + 1
            end   == C35_FirstPrompt(lines, from, FALSE)
        IN  \A k \in 1..Len(reply) :
                /\ ~geminiPrompt(reply[k])
                /\ Trim(reply[k]) # <<>> =>
                      C35_Between(lines, from, end, reply[k], FALSE)

\* C35 as amended: a line of the reply that holds the prompt token is a
\* line inside a code fence or a bordered box, and no line of the reply
\* lies after the first line with the prompt token that follows the
\* reference point outside every fence and box
C35_NoPromptLineOutside ==
    xBy = "server" =>
        LET lines == Split(xOutput)
            reply == Split(xResult)
            from  == xIndex + 1
            end   == C35_FirstPrompt(lines, from, TRUE)
        IN  \A k \in 1..Len(reply) :
                /\ Trim(reply[k]) # <<>> =>
                      C35_Between(lines, from, end, reply[k], FALSE)
                /\ geminiPrompt(reply[k]) =>
                      C35_Between(lines, from, end, reply[k], TRUE)

\* a reply cut at a prompt line outside the fences, holding a prompt line
\* that stood inside a fence or box
C35_Witness ==
    LET lines == Split(xOutput)
        reply == Split(xResult)
    IN  /\ xBy = "server"
        /\ \E k \in 1..Len(reply) : geminiPrompt(reply[k])
        /\ C35_FirstPrompt(lines, xIndex + 1, TRUE) < Len(lines)

(***************************************************************************)
(* C36: the reply returned by extractGeminiResponse is the join of a run   *)
(* of consecutive transcript lines after the reference line, in their      *)
(* order and with the content of every line unchanged.                     *)
(***************************************************************************)
\* the runs of consecutive lines after line index ref: lines i..(j - 1)
C36_Runs(lines, ref) ==
    {SubSeq(lines, i + 1, j) : i \in (ref + 1)..Len(lines), j \in (ref + 1)..Len(lines)}

\* the claim as stated
C36_VerbatimRun ==
    xBy = "server" =>
        \E run \in C36_Runs(Split(xOutput), xIndex) : xResult = Join(run)

\* C36 as amended: the reply is the join of such a run with the white
\* space at the start and at the end of the joined text stripped
C36_TrimmedRun ==
    xBy = "server" =>
        \E run \in C36_Runs(Split(xOutput), xIndex) : xResult = Trim(Join(run))

\* a reply of several lines with a fence or a box border among them, from
\* which white space was stripped
C36_Witness ==
    /\ xBy = "server"
    /\ Len(Split(xResult)) >= 2
    /\ \E k \in 1..Len(Split(xResult)) : Split(xResult)[k] \in {FenceLine, BoxLine}
    /\ \A run \in C36_Runs(Split(xOutput), xIndex) : xResult # Join(run)

(***************************************************************************)
(* C37: the debug flag changes no result: the extractor returns the same   *)
(* reply for a transcript and a message with the flag on as with the flag  *)
(* off, and a call of captureResponse ends the same way on the same        *)
(* captures with the flag on as with the flag off.                         *)
(***************************************************************************)
\* what the call of the extractor returns with the flag set to debug
C37_Reply(debug) ==
    IF xBy = "server" THEN extractGeminiResponse(xOutput, xMessage, debug)
    ELSE extractGeminiResponse_v141(xOutput, xMessage, debug)

\* how a pass of the loop whose capture fails goes on with the flag set to
\* debug
C37_AfterFailure(debug) ==
    IF CaptureFailRethrown_v141(debug) THEN "thrown" ELSE "polling"

C37_DebugChangesNothing ==
    /\ xBy # "none" => xResult = C37_Reply(~xDebug)
    /\ (bOutcome # "none" /\ bCap.failures > 0) =>
            C37_AfterFailure(bDebug) = C37_AfterFailure(~bDebug)

(***************************************************************************)
(* C38: for a fixed working directory and file system, preprocessMessage   *)
(* applied to its own result returns that result, and a word whose token   *)
(* is an absolute path is returned as it is.                               *)
(***************************************************************************)
\* the token of the word, what follows its first "@", is an absolute path
C38_AbsoluteToken(word) ==
    \E p \in 1..(Len(word) - 1) :
        /\ word[p] = AT
        /\ \A j \in 1..(p - 1) : word[j] # AT
        /\ word[p + 1] = SLASH

C38_Idempotent ==
    pResult # NoResult =>
        LET words == C9_Words(pMessage, 1, <<>>)
            outs  == C9_Words(pResult, 1, <<>>)
        IN  /\ preprocessMessage(pResult, WorkDir, pExisting) = pResult
            /\ Len(outs) = Len(words)
            /\ \A i \in 1..Len(words) :
                  C38_AbsoluteToken(words[i]) => outs[i] = words[i]

\* a message of which one token was expanded, so that the result holds an
\* absolute token, and another, absolute already, was left alone
C38_Witness ==
    /\ pResult # NoResult
    /\ pResult # pMessage
    /\ \E i \in 1..Len(C9_Words(pMessage, 1, <<>>)) :
          C38_AbsoluteToken(C9_Words(pMessage, 1, <<>>)[i])

(***************************************************************************)
(* C39: the debug record of the process holds entries of the current       *)
(* request only: every gemini_send request starts with an empty record,    *)
(* with debug on or off, and a debug report holds no entry that an         *)
(* earlier request has recorded.                                           *)
(***************************************************************************)
\* the entries of the timing log with this step name
C39_Count(timings, step) ==
    Cardinality({k \in 1..Len(timings) : timings[k] = step})

C39_RecordPerRequest ==
    \A r \in Slots :
        h[r].tool = "gemini_send" =>
            /\ h[r].pc = "checkSession" => debugInfo = DebugInfoInit
            /\ (h[r].pc = "done" /\ h[r].debug /\ h[r].result.kind = "text") =>
                  /\ C39_Count(h[r].result.debug.timings, "total_execution") = 1
                  /\ Len(h[r].result.debug.timings) <= h[r].captures + 1

====
